---- MODULE Spec2Model ----
(***************************************************************************)
(* A model of the MySQL log storage of Trillian                            *)
(* (storage/mysql/log_storage.go): the tables LeafData, Unsequenced,       *)
(* SequencedLeafData and TreeHead of one tree, and the log transactions    *)
(* that QueueLeaves, DequeueLeaves, UpdateSequencedLeaves,                 *)
(* AddSequencedLeaves and StoreSignedLogRoot run against them.             *)
(*                                                                         *)
(* The backend is a relational store with READ COMMITTED isolation and     *)
(* row locks on inserted keys: a transaction reads the committed rows and  *)
(* its own pending ones, an insert of a key another open transaction has   *)
(* inserted waits for that transaction to end, and an insert of a key that *)
(* is visible fails with a duplicate-key error.                            *)
(***************************************************************************)
EXTENDS Integers, Sequences, FiniteSets, TLC

\* ---------------------------------------------------------------- bounds

MaxHash == 2        \* well-formed identity hashes are 1..MaxHash
MaxBatch == 2       \* leaves per QueueLeaves / AddSequencedLeaves call
MaxTime == 2        \* timestamps are 1..MaxTime
MaxRev == 1         \* tree heads are stored up to this revision
MaxSize == 1        \* tree sizes and leaf indices are 0..MaxSize
MaxLimit == 2       \* DequeueLeaves is asked for 1..MaxLimit leaves
MaxAddHash == 3     \* AddSequencedLeaves batches hold hashes 1..MaxAddHash
MaxTrees == 2       \* CreateTree draws tree IDs from 1..MaxTrees
MaxOps == 3         \* calls made on one admin transaction
MaxBacklog == 21    \* rows queued before GetTokens: 0..MaxBacklog
MaxTokens == 3      \* GetTokens is asked for 1..MaxTokens tokens
MaxSpecs == 2       \* GetTokens is handed 1..MaxSpecs quota specs

\* rfc6962.DefaultHasher.Size(), handed to beginTreeTx as hashSizeBytes
hashSizeBytes == 32

\* MaxUnsequencedRows as the quota manager is configured
maxUnsequenced == 20

TxIds == {1, 2}
Hashes == 1..MaxHash
\* an identity hash of the wrong length
BadHash == 0
Times == 1..MaxTime
Revisions == 0..MaxRev
Sizes == 0..MaxSize
TreeSizes == 0..(MaxSize + 1)

HashLen(h) == IF h = BadHash THEN hashSizeBytes - 1 ELSE hashSizeBytes

VARIABLES
    treeType,     \* Trees.TreeType of the tree: "LOG" or "PREORDERED_LOG"
    leafData,     \* committed rows of LeafData: [id, val, extra, qts]
    unsequenced,  \* committed rows of Unsequenced: [id, mlh, qts, bucket]
    sequenced,    \* committed rows of SequencedLeafData: [seq, id, mlh]
    treeHead,     \* committed rows of TreeHead: [rev, size, ts]
    tx,           \* the open log transactions, one per caller
    subtree,      \* committed rows of Subtree: [tile, rev, val]
    wrapped,      \* the last call of WrapError: [err, ret]
    headLog,      \* history: the committed tree heads in commit order
    dequeuedLog,  \* history: the hashes DequeueLeaves has returned in
                  \* transactions that committed
    received,     \* history: for every hash, the leaf of the first
                  \* QueueLeaves call with it that committed
    trees,        \* the committed rows of Trees
    treeControl,  \* the tree IDs with a committed row in TreeControl
    atx,          \* the admin transaction of each caller
    qm,           \* the quota manager and its last GetTokens call
    submitted     \* history: the identity hashes QueueLeaves has accepted

tables == <<leafData, unsequenced, sequenced, treeHead, headLog, dequeuedLog,
            received, trees, treeControl, atx, subtree>>
vars == <<treeType, leafData, unsequenced, sequenced, treeHead, tx, headLog,
          dequeuedLog, received, trees, treeControl, atx, qm, submitted,
          subtree, wrapped>>

\* The tables and transactions of the log storage, which the admin storage
\* leaves alone.
logVars == <<treeType, leafData, unsequenced, sequenced, treeHead, tx, headLog,
             dequeuedLog, received, qm, submitted, subtree, wrapped>>

\* ------------------------------------------------------------- sequences

Range(s) == {s[i] : i \in DOMAIN s}

SeqsUpTo(S, n) == UNION {[1..k -> S] : k \in 1..n}

\* ------------------------------------------------------- the transaction

\* logTreeTX: the fields of the struct, the pending writes of its sql.Tx and
\* the position of its caller; arg and ret are the arguments and the result
\* of the last call, given the hashes DequeueLeaves has returned in it.
IdleTx ==
    [op |-> "idle", pc |-> "idle",
     hasRoot |-> FALSE, readRev |-> 0, rootSize |-> 0, rootTs |-> 0,
     writeRevision |-> 0,
     batch |-> <<>>, todo |-> {}, existing |-> {},
     insLeaf |-> {}, insUnseq |-> {}, delUnseq |-> {}, insSeq |-> {},
     insHead |-> {},
     dequeued |-> {},
     arg |-> <<>>, given |-> {},
     dirty |-> {}, reads |-> {},
     ret |-> <<>>, err |-> "none"]

\* What a transaction reads: the committed rows and its own pending ones.
LeafView(t) == leafData \cup tx[t].insLeaf
UnseqView(t) == (unsequenced \cup tx[t].insUnseq) \ tx[t].delUnseq
SeqView(t) == sequenced \cup tx[t].insSeq
HeadView(t) == treeHead \cup tx[t].insHead

\* A row lock held by another open transaction on a key it has inserted.
LeafLockedByOther(t, h) ==
    \E u \in TxIds \ {t} : \E r \in tx[u].insLeaf : r.id = h

\* selectLatestSignedLogRootSQL: the heads with the greatest timestamp (the
\* backend returns any one of them when several share it).
LatestHeads(heads) == {h \in heads : \A g \in heads : g.ts <= h.ts}

\* WriteRevisionOf without the branch for ErrTreeNeedsInit.
WriteRevisionNoInit(needsInit, readRev) == readRev + 1

\* beginInternal: the write revision of a transaction.

WriteRevisionOf(needsInit, readRev) ==
    IF needsInit THEN 0 ELSE readRev + 1

\* beginInternal on a tree that has the head h.
OpenedTx(op, pc, h) ==
    [IdleTx EXCEPT !.op = op, !.pc = pc, !.hasRoot = TRUE,
                   !.readRev = h.rev, !.rootSize = h.size, !.rootTs = h.ts,
                   !.writeRevision = WriteRevisionOf(FALSE, h.rev)]

\* beginInternal on a tree without a head: ErrTreeNeedsInit.
OpenedTxNeedsInit(op, pc) ==
    [IdleTx EXCEPT !.op = op, !.pc = pc,
                   !.writeRevision = WriteRevisionOf(TRUE, 0)]

\* A call that has returned: its transaction is gone, its result is held
\* until the caller takes it.
Returned(ret, err) == [IdleTx EXCEPT !.op = "returned", !.pc = "done",
                                     !.ret = ret, !.err = err]

\* ------------------------------------------------------------ the errors

\* An error value: the kind of its dynamic type, the code of a gRPC status,
\* its message, and the sentinel a plain error wraps with %w.
ErrorValue(kind, code, msg, wraps) ==
    [kind |-> kind, code |-> code, msg |-> msg, wraps |-> wraps]

\* The nil error.
NoError == ErrorValue("nil", "none", "", "none")

\* The sentinels of database/sql, each a variable of the package compared
\* by identity.
ErrNoRows == ErrorValue("sentinel", "none", "sql: no rows in result set", "none")
ErrTxDone ==
    ErrorValue("sentinel", "none",
               "sql: transaction has already been committed or rolled back",
               "none")
ErrConnDone ==
    ErrorValue("sentinel", "none", "sql: database is closed", "none")
Sentinels == {ErrNoRows, ErrTxDone, ErrConnDone}

\* status.Error and errors.New / fmt.Errorf.
StatusError(code, msg) == ErrorValue("status", code, msg, "none")
PlainError(msg, wraps) == ErrorValue("plain", "none", msg, wraps)

\* The codes of a gRPC status error.
Codes ==
    {"Canceled", "Unknown", "InvalidArgument", "DeadlineExceeded", "NotFound",
     "AlreadyExists", "PermissionDenied", "ResourceExhausted",
     "FailedPrecondition", "Aborted", "OutOfRange", "Unimplemented",
     "Internal", "Unavailable", "DataLoss", "Unauthenticated"}

\* The messages errors are made with.
Messages ==
    {"not found err", "generic error"} \cup {e.msg : e \in Sentinels}

\* The errors WrapError is called with.
Errors ==
    Sentinels
    \cup {StatusError(c, m) : c \in Codes, m \in Messages}
    \cup {PlainError(m, w) : m \in Messages,
                             w \in {"none"} \cup {e.msg : e \in Sentinels}}

\* err.Error(): the text of an error.
ErrorText(e) ==
    IF e.kind = "status"
    THEN <<"rpc error: code = ", e.code, " desc = ", e.msg>>
    ELSE <<e.msg>>

\* errors.Is(e, target) for a sentinel target.
ErrorIs(e, target) == e = target \/ (e.kind = "plain" /\ e.wraps = target.msg)

WrapErrorIs(err) ==
    IF ErrorIs(err, ErrNoRows)
    THEN StatusError("NotFound", ErrNoRows.msg)
    ELSE err

\* WrapError: the sentinel of an empty result set becomes a NotFound status
\* with the sentinel's text, any other error is returned as it is.
WrapError(err) ==
    IF err = ErrNoRows
    THEN StatusError("NotFound", err.msg)
    ELSE err

\* No call of WrapError yet.
NoWrap == [err |-> NoError, ret |-> NoError]

\* A call of WrapError at the boundary of the storage.
Wrap(err) ==
    /\ wrapped' = [err |-> err, ret |-> WrapError(err)]
    /\ UNCHANGED <<treeType, qm, tables, tx, submitted>>

\* ---------------------------------------------------- admin transactions

\* DeleteTimeMillis of a tree that is not deleted: NULL.
NoTime == 0

\* The StorageOptions CreateTree gives a tree that comes without any: new
\* trees skip writing subtree revisions.
DefaultStorageOptions == [SubtreeRevisions |-> FALSE]

\* A row of Trees. Deleted is NULL in a row CreateTree has written and that
\* was never deleted; both times are the time of the insert, and the
\* storage settings are stored with the row.
TreeRow(id, type, state, updateTime) ==
    [id |-> id, type |-> type, state |-> state, deleted |-> "NULL",
     deleteTime |-> NoTime, updateTime |-> updateTime,
     createTime |-> updateTime, displayName |-> "",
     revisioned |-> DefaultStorageOptions.SubtreeRevisions]

\* The row of Trees of the tree the log storage works on.
LogTree(type) == TreeRow(0, type, "ACTIVE", 1)

\* No adminTX: the caller has none.
NoAdminTx ==
    [st |-> "none", mode |-> "none", closed |-> FALSE, backend |-> "none",
     calls |-> 0, ops |-> <<>>, pend |-> {}, del |-> {}, ctlIns |-> {},
     ctlDel |-> {}, cascaded |-> FALSE, op |-> "none", pc |-> "ready",
     arg |-> <<>>,
     ret |-> <<>>, err |-> "none"]

TreeIds == 1..MaxTrees
TreeTypes == {"LOG", "PREORDERED_LOG"}
TreeStates == {"ACTIVE", "FROZEN"}
CallbackErrors == {"none", "CallbackError"}

\* The rows of Trees after the writes of transaction a over the rows given:
\* the rows a has inserted or updated replace those with their IDs, the rows
\* it has deleted are gone.
TreesWith(rows, a) ==
    {r \in rows : r.id \notin a.del \cup {p.id : p \in a.pend}} \cup a.pend

\* The rows of Trees a transaction reads: the committed ones under its own
\* writes.
TreesView(t) == TreesWith(trees, atx[t])

\* The tree IDs with a row in TreeControl, as a transaction reads them.
ControlWith(ids, a) == (ids \ a.ctlDel) \cup a.ctlIns

\* readTree: the tree a row of Trees stands for. A NULL Deleted reads as
\* not deleted, and the deletion time is that of a deleted tree only.
readTree(row) ==
    [id |-> row.id, type |-> row.type, state |-> row.state,
     deleted |-> row.deleted = "true",
     deleteTime |-> IF row.deleted = "true" THEN row.deleteTime ELSE NoTime,
     updateTime |-> row.updateTime, createTime |-> row.createTime,
     displayName |-> row.displayName,
     storageSettings |-> [SubtreeRevisions |-> row.revisioned]]

\* The writes of a transaction that has ended are dropped.
NoWrites(a) ==
    [a EXCEPT !.pend = {}, !.del = {}, !.ctlIns = {}, !.ctlDel = {},
              !.cascaded = FALSE]

\* sql.Tx.Commit: ends an open transaction, with or without success; a
\* transaction that has ended answers ErrTxDone. A commit that fails
\* leaves none of the transaction's writes behind.
SqlCommit(a, ok) ==
    IF a.backend # "open"
    THEN [a EXCEPT !.calls = @ + 1, !.err = "ErrTxDone"]
    ELSE IF ok
         THEN [NoWrites(a) EXCEPT !.backend = "committed", !.calls = @ + 1,
                                  !.err = "none"]
         ELSE [NoWrites(a) EXCEPT !.backend = "rolledback", !.calls = @ + 1,
                                  !.err = "CommitError"]

\* sql.Tx.Rollback: ends an open transaction and drops its writes, also
\* when it reports an error; a transaction that has ended answers
\* ErrTxDone.
SqlRollback(a, ok) ==
    IF a.backend # "open"
    THEN [a EXCEPT !.calls = @ + 1, !.err = "ErrTxDone"]
    ELSE [NoWrites(a) EXCEPT !.backend = "rolledback", !.calls = @ + 1,
                             !.err = IF ok THEN "none" ELSE "RollbackError"]

\* adminTX.Commit: marks the transaction closed and commits.
adminCommit(a, ok) == SqlCommit([a EXCEPT !.closed = TRUE], ok)

\* adminTX.Close that rolls back whether or not the transaction is
\* already closed.
adminCloseUnguarded(a, ok) ==
    LET r == SqlRollback([a EXCEPT !.closed = TRUE], ok)
    IN  IF r.err \notin {"none", "ErrTxDone"} THEN r
        ELSE [r EXCEPT !.err = "none"]

\* adminTX.Close: nothing on a closed transaction; otherwise marks it
\* closed and rolls back, and ErrTxDone is no error.
adminClose(a, ok) ==
    IF a.closed THEN [a EXCEPT !.err = "none"]
    ELSE LET r == SqlRollback([a EXCEPT !.closed = TRUE], ok)
         IN  IF r.err \notin {"none", "ErrTxDone"} THEN r
             ELSE [r EXCEPT !.err = "none"]

\* A call on transaction a that left it as b has committed the writes of a.
Committed(a, b) == a.backend = "open" /\ b.backend = "committed"

\* The rows of Trees after a call on transaction a that left it as b: the
\* writes of a are persisted when the call committed them.
TreesAfter(a, b) ==
    IF Committed(a, b) THEN TreesWith(trees, a) ELSE trees

\* The other tables after a call on transaction a that left it as b: when
\* it committed, the rows of TreeControl a has written or deleted, and with
\* the tree of the log storage deleted under cascading foreign keys, its
\* rows in the tables of the log are gone.
OthersAfter(a, b) ==
    /\ treeControl' = IF Committed(a, b) THEN ControlWith(treeControl, a)
                      ELSE treeControl
    /\ IF Committed(a, b) /\ a.cascaded
       THEN /\ leafData' = {}
            /\ unsequenced' = {}
            /\ sequenced' = {}
            /\ treeHead' = {}
            /\ subtree' = {}
            /\ UNCHANGED <<wrapped, treeType, qm, tx, headLog, dequeuedLog, received,
                           submitted>>
       ELSE UNCHANGED logVars

\* mysqlAdminStorage.Snapshot and beginInternal: a new adminTX on a new
\* backend transaction.
AdminBegin(t, mode) ==
    /\ atx[t].st = "none"
    /\ atx' = [atx EXCEPT ![t] = [NoAdminTx EXCEPT !.st = "open",
                                       !.mode = mode, !.backend = "open"]]
    /\ UNCHANGED <<trees, treeControl, logVars>>

\* The tree IDs other transactions have written or deleted and neither
\* committed nor rolled back: a write of one of them waits for the row.
TreeLockedByOther(t, id) ==
    \E u \in TxIds \ {t} :
        id \in atx[u].del \cup {r.id : r \in atx[u].pend}

\* A call on the admin transaction of t can begin: the transaction is there,
\* no call on it is under way and the caller has calls left.
CanCall(t) ==
    /\ atx[t].st = "open"
    /\ atx[t].pc = "ready"
    /\ Len(atx[t].ops) < MaxOps

\* The transaction when a call on it has returned.
Called(a, op, ret, err) ==
    [a EXCEPT !.ops = Append(@, op), !.pc = "ready", !.arg = <<>>,
              !.ret = ret, !.err = err]

\* The transaction when a call on it has returned, for the calls that are
\* not kept in the history of the transaction: the last call is kept.
Answered(a, op, ret, err) ==
    [a EXCEPT !.op = op, !.pc = "ready", !.arg = <<>>,
              !.ret = ret, !.err = err]

\* adminTX.CreateTree, of a valid tree: inserts the row of the new tree
\* under the ID NewTreeID has drawn, and its row of TreeControl, and returns
\* the tree. The insert fails on a transaction that has ended and on an ID
\* that is taken.
CreateTree(t, type, id, now) ==
    /\ CanCall(t)
    /\ ~TreeLockedByOther(t, id)
    /\ atx' = [atx EXCEPT ![t] =
          IF @.backend # "open"
          THEN Called(@, "CreateTree", <<>>, "ErrTxDone")
          ELSE IF id \in {r.id : r \in TreesView(t)}
          THEN Called(@, "CreateTree", <<>>, "DuplicateTree")
          ELSE LET row == TreeRow(id, type, "ACTIVE", now)
               IN  Called([@ EXCEPT !.pend = @ \cup {row},
                                    !.ctlIns = @ \cup {id},
                                    !.ctlDel = @ \ {id}],
                          "CreateTree", <<readTree(row)>>, "none")]
    /\ UNCHANGED <<trees, treeControl, logVars>>

\* adminTX.GetTree that forwards the error of the backend.
GetTreeForwarding(view, id) ==
    IF \E r \in view : r.id = id
    THEN [ret |-> <<readTree(CHOOSE r \in view : r.id = id)>>, err |-> "none"]
    ELSE [ret |-> <<>>, err |-> "ErrNoRows"]

\* adminTX.GetTree on the rows a transaction reads: the tree of the row with
\* the ID, deleted or not; without a row, NotFound in place of ErrNoRows.
GetTreeOf(view, id) ==
    IF \E r \in view : r.id = id
    THEN [ret |-> <<readTree(CHOOSE r \in view : r.id = id)>>, err |-> "none"]
    ELSE [ret |-> <<>>, err |-> "NotFound"]

\* adminTX.GetTree.
GetTree(t, id) ==
    /\ CanCall(t)
    /\ atx' = [atx EXCEPT ![t] =
          IF @.backend # "open"
          THEN Answered(@, "GetTree", <<>>, "ErrTxDone")
          ELSE LET g == GetTreeOf(TreesView(t), id)
               IN  Answered(@, "GetTree", g.ret, g.err)]
    /\ UNCHANGED <<trees, treeControl, logVars>>

\* validateDeleted that takes every row there is.
validateDeletedAny(view, id, wantDeleted) ==
    IF ~\E r \in view : r.id = id THEN "NotFound" ELSE "none"

\* validateDeleted: NotFound without a row of the tree, FailedPrecondition
\* when the row is deleted and should not be or the other way round.
validateDeleted(view, id, wantDeleted) ==
    IF ~\E r \in view : r.id = id THEN "NotFound"
    ELSE LET deleted == (CHOOSE r \in view : r.id = id).deleted = "true"
         IN  IF wantDeleted /\ ~deleted THEN "FailedPrecondition"
             ELSE IF ~wantDeleted /\ deleted THEN "FailedPrecondition"
             ELSE "none"

\* updateDeleted up to the return of validateDeleted: an error ends the
\* call, and else the UPDATE comes next.
UpdateDeletedStart(a, view, op, id, deleted, deleteTime) ==
    IF a.backend # "open" THEN Answered(a, op, <<>>, "ErrTxDone")
    ELSE LET e == validateDeleted(view, id, ~deleted)
         IN  IF e # "none" THEN Answered(a, op, <<>>, e)
             ELSE [a EXCEPT !.op = op, !.pc = "update",
                            !.arg = <<[id |-> id,
                                       deleted |-> IF deleted THEN "true"
                                                   ELSE "false",
                                       deleteTime |-> deleteTime]>>]

\* adminTX.SoftDeleteTree: updateDeleted with deleted = true and the time
\* of the call.
SoftDeleteTree(t, id, now) ==
    /\ CanCall(t)
    /\ atx' = [atx EXCEPT ![t] =
          UpdateDeletedStart(@, TreesView(t), "SoftDeleteTree", id, TRUE, now)]
    /\ UNCHANGED <<trees, treeControl, logVars>>

\* adminTX.UndeleteTree that leaves the deletion time in the row.
UndeleteTreeKeepingTime(t, id) ==
    /\ CanCall(t)
    /\ atx' = [atx EXCEPT ![t] =
          UpdateDeletedStart(@, TreesView(t), "UndeleteTree", id, FALSE,
                             MaxTime)]
    /\ UNCHANGED <<trees, treeControl, logVars>>

\* adminTX.UndeleteTree: updateDeleted with deleted = false and no time.
UndeleteTree(t, id) ==
    /\ CanCall(t)
    /\ atx' = [atx EXCEPT ![t] =
          UpdateDeletedStart(@, TreesView(t), "UndeleteTree", id, FALSE,
                             NoTime)]
    /\ UNCHANGED <<trees, treeControl, logVars>>

\* updateDeleted from the UPDATE on: it sets Deleted and DeleteTimeMillis in
\* the row of the tree, if there is one, waiting for the row while another
\* transaction holds it, and returns what GetTree reads.
UpdateDeletedRow(t) ==
    /\ atx[t].st = "open"
    /\ atx[t].pc = "update"
    /\ LET w == atx[t].arg[1]
           view == TreesView(t)
           rows == {[r EXCEPT !.deleted = w.deleted,
                              !.deleteTime = w.deleteTime] :
                       r \in {x \in view : x.id = w.id}}
           a == [atx[t] EXCEPT !.pend = {p \in @ : p.id # w.id} \cup rows]
           g == GetTreeOf(TreesWith(trees, a), w.id)
       IN  /\ ~TreeLockedByOther(t, w.id)
           /\ atx' = [atx EXCEPT ![t] =
                        [a EXCEPT !.pc = "ready", !.arg = <<>>,
                                  !.ret = g.ret, !.err = g.err]]
    /\ UNCHANGED <<trees, treeControl, logVars>>

\* adminTX.HardDeleteTree up to the return of validateDeleted.
HardDeleteTree(t, id) ==
    /\ CanCall(t)
    /\ atx' = [atx EXCEPT ![t] =
          IF @.backend # "open"
          THEN Answered(@, "HardDeleteTree", <<>>, "ErrTxDone")
          ELSE LET e == validateDeleted(TreesView(t), id, TRUE)
               IN  IF e # "none" THEN Answered(@, "HardDeleteTree", <<>>, e)
                   ELSE [@ EXCEPT !.op = "HardDeleteTree",
                                  !.pc = "delete",
                                  !.arg = <<[id |-> id]>>]]
    /\ UNCHANGED <<trees, treeControl, logVars>>

\* adminTX.HardDeleteTree from the first DELETE on: the row of TreeControl
\* and the row of Trees go, the second DELETE waiting for the row while
\* another transaction holds it. Where the foreign keys of the other tables
\* cascade, the backend deletes the rows of the tree in them.
HardDeleteRows(t, cascade) ==
    /\ atx[t].st = "open"
    /\ atx[t].pc = "delete"
    /\ LET id == atx[t].arg[1].id
           there == \E r \in TreesView(t) : r.id = id
       IN  /\ ~TreeLockedByOther(t, id)
           /\ atx' = [atx EXCEPT ![t] =
                 [@ EXCEPT !.ctlDel = @ \cup {id},
                           !.ctlIns = @ \ {id},
                           !.del = IF there THEN @ \cup {id} ELSE @,
                           !.pend = {p \in @ : p.id # id},
                           !.cascaded = @ \/ (there /\ cascade /\ id = 0),
                           !.pc = "ready", !.arg = <<>>,
                           !.ret = <<>>, !.err = "none"]]
    /\ UNCHANGED <<trees, treeControl, logVars>>

\* A mutator sets some of the fields of the tree it is given: it is the
\* record of the fields it sets.
updateFunc(mutator, tree) ==
    [f \in DOMAIN tree |->
        IF f \in DOMAIN mutator THEN mutator[f] ELSE tree[f]]

\* The mutator that sets the state of the tree.
SetState(state) == [state |-> state]

\* storage.ValidateTreeForUpdate: the ID and the type of a tree cannot be
\* changed, but for a PREORDERED_LOG that becomes a LOG.
ValidateTreeForUpdate(before, tree) ==
    IF tree.id # before.id THEN "InvalidArgument"
    ELSE IF /\ tree.type # before.type
            /\ ~(before.type = "PREORDERED_LOG" /\ tree.type = "LOG")
    THEN "InvalidArgument"
    ELSE "none"

\* adminTX.UpdateTree up to the checks of the tree the mutator has changed:
\* GetTree, the mutator, the validation and the update time.
UpdateTree(t, id, mutator, now) ==
    /\ CanCall(t)
    /\ atx' = [atx EXCEPT ![t] =
          IF @.backend # "open"
          THEN Answered(@, "UpdateTree", <<>>, "ErrTxDone")
          ELSE LET g == GetTreeOf(TreesView(t), id)
               IN  IF g.err # "none" THEN Answered(@, "UpdateTree", <<>>, g.err)
                   ELSE LET tree == updateFunc(mutator, g.ret[1])
                            err == ValidateTreeForUpdate(g.ret[1], tree)
                        IN  IF err # "none"
                            THEN Answered(@, "UpdateTree", <<>>, err)
                            ELSE [@ EXCEPT !.op = "UpdateTree",
                                           !.pc = "rewrite",
                                           !.arg = <<[tree EXCEPT
                                                        !.updateTime = now]>>]]
    /\ UNCHANGED <<trees, treeControl, logVars>>

\* The rows updateTreeSQL leaves, if it set every column from the tree.
UpdateTreeSQLAll(rows, tree) ==
    {[r EXCEPT !.state = tree.state, !.type = tree.type,
               !.displayName = tree.displayName,
               !.updateTime = tree.updateTime,
               !.createTime = tree.createTime,
               !.deleted = IF tree.deleted THEN "true" ELSE "false",
               !.revisioned = tree.storageSettings.SubtreeRevisions] :
        r \in {x \in rows : x.id = tree.id}}

\* updateTreeSQL: the rows with the ID of the tree, with the state, the
\* type, the display name (and so the description and the maximum root
\* duration) and the update time of the tree.
UpdateTreeSQL(rows, tree) ==
    {[r EXCEPT !.state = tree.state, !.type = tree.type,
               !.displayName = tree.displayName,
               !.updateTime = tree.updateTime] :
        r \in {x \in rows : x.id = tree.id}}

\* adminTX.UpdateTree from updateTreeSQL on: the row with the ID of the
\* changed tree is written, if there is one, and the changed tree is
\* returned.
UpdateTreeRow(t) ==
    /\ atx[t].st = "open"
    /\ atx[t].pc = "rewrite"
    /\ LET tree == atx[t].arg[1]
           rows == UpdateTreeSQL(TreesView(t), tree)
       IN  /\ ~TreeLockedByOther(t, tree.id)
           /\ atx' = [atx EXCEPT ![t] =
                 [@ EXCEPT !.pend = {p \in @ : p.id # tree.id} \cup rows,
                           !.pc = "ready", !.arg = <<>>,
                           !.ret = <<tree>>, !.err = "none"]]
    /\ UNCHANGED <<trees, treeControl, logVars>>

\* A caller of Snapshot or beginInternal calls Commit.
AdminCommit(t, ok) ==
    /\ CanCall(t)
    /\ atx[t].mode = "tx"
    /\ LET b == adminCommit(atx[t], ok)
       IN  /\ trees' = TreesAfter(atx[t], b)
           /\ OthersAfter(atx[t], b)
           /\ atx' = [atx EXCEPT ![t] =
                        [b EXCEPT !.ops = Append(@, "Commit"), !.ret = <<>>]]

\* A caller of Snapshot or beginInternal calls Close.
AdminClose(t, ok) ==
    /\ CanCall(t)
    /\ atx[t].mode = "tx"
    /\ LET b == adminClose(atx[t], ok)
       IN  /\ trees' = TreesAfter(atx[t], b)
           /\ OthersAfter(atx[t], b)
           /\ atx' = [atx EXCEPT ![t] =
                        [b EXCEPT !.ops = Append(@, "Close"), !.ret = <<>>]]

\* ReadWriteTransaction that commits whatever the callback returns.
CommitsAlways(cbErr) == TRUE

\* ReadWriteTransaction (log and admin): Commit is called when the
\* callback has returned no error.
Commits(cbErr) == cbErr = "none"

\* mysqlAdminStorage.ReadWriteTransaction, from the return of the callback:
\* the callback's error is returned and else Commit's; the deferred Close
\* runs last and its error is only logged.
AdminReadWriteTransaction(t, cbErr, ok, closeOk) ==
    /\ atx[t].st = "open"
    /\ atx[t].pc = "ready"
    /\ atx[t].mode = "rw"
    /\ LET a == atx[t]
           b == IF Commits(cbErr) THEN adminCommit(a, ok) ELSE a
           c == adminClose(b, closeOk)
       IN  /\ trees' = TreesAfter(a, c)
           /\ OthersAfter(a, c)
           /\ atx' = [atx EXCEPT ![t] =
                 [c EXCEPT !.st = "returned",
                           !.ops = Append(@, "Return"),
                           !.ret = <<>>,
                           !.err = IF cbErr # "none" THEN cbErr ELSE b.err]]

\* The caller lets go of a transaction it has closed, or of the result of
\* ReadWriteTransaction.
AdminDrop(t) ==
    /\ atx[t].st # "none"
    /\ atx[t].st = "open" => atx[t].closed
    /\ atx' = [atx EXCEPT ![t] = NoAdminTx]
    /\ UNCHANGED <<trees, treeControl, logVars>>

\* ------------------------------------------------------------ QueueLeaves

\* The leaves caller t submits: identity hash h with the caller's own value
\* and extra data.
LeafOf(t, h) == [id |-> h, val |-> t, extra |-> t]

QueueBatches(t) ==
    SeqsUpTo({LeafOf(t, h) : h \in Hashes \cup {BadHash}}, MaxBatch)

\* logTreeTX.QueueLeaves, the validation loop: every identity hash has the
\* hasher's size.
ValidBatch(batch) ==
    \A i \in DOMAIN batch : HashLen(batch[i].id) = hashSizeBytes

\* The validation loop stamps every leaf with the queue timestamp; with it
\* the leaf is the row insertLeafDataSQL writes.
Stamped(leaf, qts) ==
    [id |-> leaf.id, val |-> leaf.val, extra |-> leaf.extra, qts |-> qts]

\* The row insertUnsequencedEntrySQL writes for a leaf: the Merkle leaf hash
\* is the hash of the leaf value.
QueueRow(leaf) ==
    [id |-> leaf.id, mlh |-> leaf.val, qts |-> leaf.qts, bucket |-> 0]

\* NextInOrder without the sort: the leaves are inserted in request order.
NextInOrderUnsorted(batch, todo) == {i \in todo : \A j \in todo : i <= j}

\* sortLeavesForInsert: the positions that may come next in the sorted
\* order (sort.Sort is not stable: equal hashes come in any order).
NextInOrder(batch, todo) ==
    {i \in todo : \A j \in todo : batch[i].id <= batch[j].id}

\* LeafDuplicate that misses the rows of the transaction itself.
LeafDuplicateCommitted(view, h) == \E r \in view \cap leafData : r.id = h

\* isDuplicateErr on an insert into LeafData: the key (TreeId,
\* LeafIdentityHash) is already there.
LeafDuplicate(view, h) == \E r \in view : r.id = h

\* mySQLLogStorage.QueueLeaves, up to the end of the validation loop of
\* logTreeTX.QueueLeaves.
QBegin(t, batch, qts) ==
    /\ tx[t].op = "idle"
    /\ \E h \in LatestHeads(treeHead) \cup {[rev |-> 0, size |-> 0, ts |-> 0]} :
        /\ (treeHead # {}) => h \in treeHead
        /\ tx' = [tx EXCEPT ![t] =
              IF treeHead = {}
              THEN Returned(<<>>, "TreeNeedsInit")
              ELSE IF ~ValidBatch(batch)
              THEN Returned(<<>>, "InvalidHashLength")
              ELSE [OpenedTx("queue", "insert", h) EXCEPT
                      !.batch = [i \in DOMAIN batch |-> Stamped(batch[i], qts)],
                      !.todo = DOMAIN batch]]
    /\ submitted' = IF treeHead # {} /\ ValidBatch(batch)
                    THEN submitted \cup {batch[i].id : i \in DOMAIN batch}
                    ELSE submitted
    /\ UNCHANGED <<wrapped, treeType, qm, tables>>

\* QueueInsertLeaf with the "continue" of the duplicate branch lost: a
\* duplicate leaf gets a queue entry all the same.
QueueInsertLeafRequeue(t, i) ==
    LET leaf == tx[t].batch[i]
    IN IF LeafDuplicate(LeafView(t), leaf.id)
       THEN [tx[t] EXCEPT !.existing = @ \cup {i},
                          !.insUnseq = @ \cup {QueueRow(leaf)},
                          !.todo = @ \ {i}]
       ELSE [tx[t] EXCEPT !.insLeaf = @ \cup {leaf},
                          !.insUnseq = @ \cup {QueueRow(leaf)},
                          !.todo = @ \ {i}]

\* One iteration of the insert loop of logTreeTX.QueueLeaves, for the leaf
\* at position i: the transaction after it.
QueueInsertLeaf(t, i) ==
    LET leaf == tx[t].batch[i]
    IN IF LeafDuplicate(LeafView(t), leaf.id)
       THEN [tx[t] EXCEPT !.existing = @ \cup {i}, !.todo = @ \ {i}]
       ELSE [tx[t] EXCEPT !.insLeaf = @ \cup {leaf},
                          !.insUnseq = @ \cup {QueueRow(leaf)},
                          !.todo = @ \ {i}]

\* The insert loop: the next leaf in sorted order. The insert waits while
\* another open transaction holds the lock on the leaf's key.
QInsert(t) ==
    /\ tx[t].op = "queue"
    /\ tx[t].pc = "insert"
    /\ \E i \in NextInOrder(tx[t].batch, tx[t].todo) :
        /\ ~LeafLockedByOther(t, tx[t].batch[i].id)
        /\ tx' = [tx EXCEPT ![t] = QueueInsertLeaf(t, i)]
    /\ UNCHANGED <<wrapped, treeType, qm, tables, submitted>>

\* getLeafDataByIdentityHash for the duplicate positions: the rows of
\* LeafData with one of their hashes.
ExistingRows(t) ==
    {r \in LeafView(t) : \E i \in tx[t].existing : tx[t].batch[i].id = r.id}

\* ExistingLeaf with the replacement loop lost: the requested leaf stays.
ExistingLeafRequested(t, i) == tx[t].batch[i]

\* The leaf logTreeTX.QueueLeaves returns at a duplicate position: the
\* stored row with the requested hash.
ExistingLeaf(t, i) ==
    CHOOSE r \in ExistingRows(t) : r.id = tx[t].batch[i].id

\* "failed to retrieve all existing leaves": fewer rows than hashes asked.
RetrievedAll(t) ==
    Cardinality(ExistingRows(t)) =
        Cardinality({tx[t].batch[i].id : i \in tx[t].existing})

\* QueueResult with the original positions lost: the result at position k
\* is that of the leaf the sort has put k-th.
QueueResultBySortIndex(t) ==
    LET batch == tx[t].batch
        pos(k) == CHOOSE i \in DOMAIN batch :
                     Cardinality({j \in DOMAIN batch :
                         \/ batch[j].id < batch[i].id
                         \/ batch[j].id = batch[i].id /\ j < i}) = k - 1
    IN  [k \in DOMAIN batch |->
            IF pos(k) \in tx[t].existing
            THEN [leaf |-> ExistingLeaf(t, pos(k)), status |-> "ALREADY_EXISTS"]
            ELSE [leaf |-> batch[pos(k)], status |-> "OK"]]

\* What mySQLLogStorage.QueueLeaves returns: one QueuedLogLeaf per input
\* position.
QueueResult(t) ==
    [i \in DOMAIN tx[t].batch |->
        IF i \in tx[t].existing
        THEN [leaf |-> ExistingLeaf(t, i), status |-> "ALREADY_EXISTS"]
        ELSE [leaf |-> tx[t].batch[i], status |-> "OK"]]

\* ------------------------------------------------------ the subtree cache

\* The tiles of the tree and the contents a tile is given.
MaxTiles == 2
Tiles == 1..MaxTiles
TileVals == 1..MaxHash

\* The storage option of the tree the log storage works on: whether subtree
\* revisions are written.
SubtreeRevisions == \E r \in trees : r.id = 0 /\ r.revisioned

\* The row of Subtree a read of a tile loads for a transaction: the latest
\* one at a revision up to readRev, or the one row of a tree that writes no
\* revisions.
getSubtreesAtRev(tile, readRev) ==
    {r \in subtree :
        /\ r.tile = tile
        /\ r.rev <= readRev
        /\ \A o \in subtree :
              (o.tile = tile /\ o.rev <= readRev) => o.rev <= r.rev}

\* logTreeTX.GetMerkleNodes: the nodes of a tile, from the tiles the
\* transaction holds, written or loaded before; else from the store at the
\* revision it reads, and the tile loaded is kept.
GetMerkleNodes(t, tile) ==
    /\ tx[t].op = "rw"
    /\ LET held == {d \in tx[t].dirty \cup tx[t].reads : d.tile = tile}
           rows == getSubtreesAtRev(tile, tx[t].readRev)
           dirty == {d \in held : d \in tx[t].dirty}
       IN tx' = [tx EXCEPT ![t] =
              [@ EXCEPT !.pc = "run", !.err = "none", !.arg = <<>>,
                        !.ret = IF dirty # {}
                                THEN <<(CHOOSE d \in dirty : TRUE).val>>
                                ELSE IF held # {}
                                THEN <<(CHOOSE d \in held : TRUE).val>>
                                ELSE IF rows # {}
                                THEN <<(CHOOSE r \in rows : TRUE).val>>
                                ELSE <<>>,
                        !.reads = IF held # {} THEN @ ELSE @ \cup rows]]
    /\ UNCHANGED <<wrapped, treeType, qm, tables, submitted>>

\* SetMerkleNodes: the tile is changed in the cache of the transaction and
\* marked dirty.
SetMerkleNodes(t, tile, val) ==
    /\ tx[t].op = "rw"
    /\ tx' = [tx EXCEPT ![t] =
          [@ EXCEPT !.pc = "run", !.err = "none", !.arg = <<>>, !.ret = <<>>,
                    !.dirty = {d \in @ : d.tile # tile}
                              \cup {[tile |-> tile, val |-> val]}]]
    /\ UNCHANGED <<wrapped, treeType, qm, tables, submitted>>

\* The revision the dirty tiles of a transaction are written at.
FlushRevisionAlways(t) == tx[t].writeRevision

FlushRevision(t) == IF SubtreeRevisions THEN tx[t].writeRevision ELSE 0

\* The flush at commit: every dirty tile is written once, over a row with
\* the same key.
StoreSubtrees(t) ==
    LET rows == {[tile |-> d.tile, rev |-> FlushRevision(t), val |-> d.val] :
                    d \in tx[t].dirty}
    IN  {r \in subtree :
            \A n \in rows : ~(n.tile = r.tile /\ n.rev = r.rev)} \cup rows

\* Commit of a log transaction: its pending rows become committed rows.
CommitTables(t) ==
    /\ leafData' = leafData \cup tx[t].insLeaf
    /\ unsequenced' = (unsequenced \cup tx[t].insUnseq) \ tx[t].delUnseq
    /\ sequenced' = sequenced \cup tx[t].insSeq
    /\ treeHead' = treeHead \cup tx[t].insHead
    /\ headLog' = IF tx[t].insHead = {} THEN headLog
                  ELSE Append(headLog, CHOOSE h \in tx[t].insHead : TRUE)
    /\ dequeuedLog' = dequeuedLog \cup tx[t].given
    /\ received' = received \cup
          {[id |-> b.id, val |-> b.val, extra |-> b.extra] :
              b \in {x \in Range(tx[t].batch) :
                        \A r \in received : r.id # x.id}}
    /\ subtree' = StoreSubtrees(t)
    /\ UNCHANGED <<trees, treeControl, atx>>

\* The end of QueueLeaves: the read of the existing leaves, the commit and
\* the result.
QFinish(t) ==
    /\ tx[t].op = "queue"
    /\ tx[t].pc = "insert"
    /\ tx[t].todo = {}
    /\ IF RetrievedAll(t)
       THEN /\ CommitTables(t)
            /\ tx' = [tx EXCEPT ![t] = Returned(QueueResult(t), "none")]
       ELSE /\ UNCHANGED tables
            /\ tx' = [tx EXCEPT ![t] = Returned(<<>>, "RetrieveFailed")]
    /\ UNCHANGED <<wrapped, treeType, qm, submitted>>

\* The caller takes the result of its call.
Return(t) ==
    /\ tx[t].op = "returned"
    /\ tx' = [tx EXCEPT ![t] = IdleTx]
    /\ UNCHANGED <<wrapped, treeType, qm, tables, submitted>>

\* ------------------------------------------------------- GetLeavesByRange

\* RangeRows with the join condition lost: every leaf row is paired with
\* every sequenced row of the range.
RangeRowsCrossJoin(t, start, end) ==
    {[idx |-> s.seq, id |-> l.id, mlh |-> s.mlh, val |-> l.val,
      extra |-> l.extra, qts |-> l.qts] :
        <<l, s>> \in {p \in LeafView(t) \X SeqView(t) :
                        /\ p[2].seq >= start
                        /\ p[2].seq < end}}

\* selectLeavesByRangeSQL: the join of LeafData and SequencedLeafData on the
\* identity hash, for start <= SequenceNumber < end.
RangeRows(t, start, end) ==
    {[idx |-> s.seq, id |-> l.id, mlh |-> s.mlh, val |-> l.val,
      extra |-> l.extra, qts |-> l.qts] :
        <<l, s>> \in {p \in LeafView(t) \X SeqView(t) :
                        /\ p[1].id = p[2].id
                        /\ p[2].seq >= start
                        /\ p[2].seq < end}}

\* ORDER BY s.SequenceNumber.
RECURSIVE BySequenceNumber(_)
BySequenceNumber(rows) ==
    IF rows = {} THEN <<>>
    ELSE LET r == CHOOSE x \in rows : \A y \in rows : x.idx <= y.idx
         IN <<r>> \o BySequenceNumber(rows \ {r})

\* RangeScan numbering the leaves by their position instead of checking
\* the index of the row.
RECURSIVE RangeScanRenumber(_, _, _, _)
RangeScanRenumber(rows, wantIndex, treeSize, acc) ==
    IF rows = <<>> THEN [err |-> "none", leaves |-> acc]
    ELSE RangeScanRenumber(Tail(rows), wantIndex + 1, treeSize,
                           Append(acc, [Head(rows) EXCEPT !.idx = wantIndex]))

\* The scan loop of getLeavesByRangeInternal from wantIndex on.
RECURSIVE RangeScan(_, _, _, _)
RangeScan(rows, wantIndex, treeSize, acc) ==
    IF rows = <<>> THEN [err |-> "none", leaves |-> acc]
    ELSE IF Head(rows).idx # wantIndex
    THEN IF wantIndex < treeSize
         THEN [err |-> "UnexpectedIndex", leaves |-> <<>>]
         ELSE [err |-> "none", leaves |-> acc]
    ELSE RangeScan(Tail(rows), wantIndex + 1, treeSize, Append(acc, Head(rows)))

\* getLeavesByRangeInternal without the check of start against the tree
\* size.
getLeavesByRangeNoStartCheck(t, start, count) ==
    IF count <= 0 THEN [err |-> "InvalidArgument", leaves |-> <<>>]
    ELSE IF start < 0 THEN [err |-> "InvalidArgument", leaves |-> <<>>]
    ELSE LET clipped == IF treeType = "LOG" /\ count > tx[t].rootSize - start
                        THEN tx[t].rootSize - start ELSE count
         IN RangeScan(BySequenceNumber(RangeRows(t, start, start + clipped)),
                      start, tx[t].rootSize, <<>>)

\* logTreeTX.getLeavesByRangeInternal.
getLeavesByRangeInternal(t, start, count) ==
    IF count <= 0 THEN [err |-> "InvalidArgument", leaves |-> <<>>]
    ELSE IF start < 0 THEN [err |-> "InvalidArgument", leaves |-> <<>>]
    ELSE IF treeType = "LOG" /\ tx[t].rootSize <= 0
    THEN [err |-> "OutOfRange", leaves |-> <<>>]
    ELSE IF treeType = "LOG" /\ start >= tx[t].rootSize
    THEN [err |-> "OutOfRange", leaves |-> <<>>]
    ELSE LET clipped == IF treeType = "LOG" /\ count > tx[t].rootSize - start
                        THEN tx[t].rootSize - start ELSE count
         IN RangeScan(BySequenceNumber(RangeRows(t, start, start + clipped)),
                      start, tx[t].rootSize, <<>>)

\* ---------------------------------------------------------- DequeueLeaves

\* The dequeue order: (bucket, queue timestamp, identity hash).
QueueOrderLeq(a, b) ==
    \/ a.bucket < b.bucket
    \/ a.bucket = b.bucket /\ a.qts < b.qts
    \/ a.bucket = b.bucket /\ a.qts = b.qts /\ a.id <= b.id

RECURSIVE InQueueOrder(_)
InQueueOrder(rows) ==
    IF rows = {} THEN <<>>
    ELSE LET r == CHOOSE x \in rows : \A y \in rows : QueueOrderLeq(x, y)
         IN <<r>> \o InQueueOrder(rows \ {r})

\* The queued entries a dequeue at this cutoff may take.
Eligible(rows, cutoff) == {r \in rows : r.qts <= cutoff}

\* selectQueuedLeavesSQL: the first limit eligible entries in queue order.
SelectQueued(rows, cutoff, limit) ==
    LET all == InQueueOrder(Eligible(rows, cutoff))
    IN SubSeq(all, 1, IF limit < Len(all) THEN limit ELSE Len(all))

\* dequeueLeaf: the leaf and the dequeue info of a selected row.
DequeuedLeaf(r) == [id |-> r.id, mlh |-> r.mlh, qts |-> r.qts]
DequeueInfo(r) == [id |-> r.id, qts |-> r.qts, bucket |-> r.bucket]

\* DequeueLoop without the look-up in t.dequeued.
RECURSIVE DequeueLoopNoMemo(_, _, _)
DequeueLoopNoMemo(rows, dequeued, leaves) ==
    IF rows = <<>>
    THEN [err |-> "none", dequeued |-> dequeued, leaves |-> leaves]
    ELSE IF HashLen(Head(rows).id) # hashSizeBytes
    THEN [err |-> "IncorrectHashSize", dequeued |-> dequeued, leaves |-> <<>>]
    ELSE DequeueLoopNoMemo(Tail(rows), dequeued \cup {DequeueInfo(Head(rows))},
                           Append(leaves, DequeuedLeaf(Head(rows))))

\* DequeueLoop leaving the loop at the first row whose hash is in
\* t.dequeued.
RECURSIVE DequeueLoopStopAtDup(_, _, _)
DequeueLoopStopAtDup(rows, dequeued, leaves) ==
    IF rows = <<>>
    THEN [err |-> "none", dequeued |-> dequeued, leaves |-> leaves]
    ELSE IF HashLen(Head(rows).id) # hashSizeBytes
    THEN [err |-> "IncorrectHashSize", dequeued |-> dequeued, leaves |-> <<>>]
    ELSE IF \E d \in dequeued : d.id = Head(rows).id
    THEN [err |-> "none", dequeued |-> dequeued, leaves |-> leaves]
    ELSE DequeueLoopStopAtDup(Tail(rows),
                              dequeued \cup {DequeueInfo(Head(rows))},
                              Append(leaves, DequeuedLeaf(Head(rows))))

\* The loop of logTreeTX.DequeueLeaves over the selected rows: a row whose
\* hash is in t.dequeued is skipped, any other is recorded and returned.
RECURSIVE DequeueLoop(_, _, _)
DequeueLoop(rows, dequeued, leaves) ==
    IF rows = <<>>
    THEN [err |-> "none", dequeued |-> dequeued, leaves |-> leaves]
    ELSE IF HashLen(Head(rows).id) # hashSizeBytes
    THEN [err |-> "IncorrectHashSize", dequeued |-> dequeued, leaves |-> <<>>]
    ELSE IF \E d \in dequeued : d.id = Head(rows).id
    THEN DequeueLoop(Tail(rows), dequeued, leaves)
    ELSE DequeueLoop(Tail(rows), dequeued \cup {DequeueInfo(Head(rows))},
                     Append(leaves, DequeuedLeaf(Head(rows))))

\* DequeueLeaves deleting the queue entries it returns.
DequeueLeavesDeleting(t, limit, cutoff) ==
    /\ tx[t].op = "rw"
    /\ treeType = "LOG"
    /\ tx' = [tx EXCEPT ![t] =
          LET rows == SelectQueued(UnseqView(t), cutoff, limit)
              got == DequeueLoop(rows, tx[t].dequeued, <<>>)
          IN [tx[t] EXCEPT !.pc = "dequeued", !.ret = got.leaves,
                           !.err = got.err, !.dequeued = got.dequeued,
                           !.arg = [limit |-> limit, cutoff |-> cutoff],
                           !.given = @ \cup {l.id : l \in Range(got.leaves)},
                           !.delUnseq = @ \cup Range(rows)]]
    /\ UNCHANGED <<wrapped, treeType, qm, tables, submitted>>

\* logTreeTX.DequeueLeaves inside a ReadWriteTransaction callback.
DequeueLeaves(t, limit, cutoff) ==
    /\ tx[t].op = "rw"
    /\ tx' = [tx EXCEPT ![t] =
          IF treeType = "PREORDERED_LOG"
          THEN LET got == getLeavesByRangeInternal(t, tx[t].rootSize, limit)
               IN [tx[t] EXCEPT !.pc = "dequeued", !.ret = got.leaves,
                                !.err = got.err,
                                !.arg = [limit |-> limit, cutoff |-> cutoff],
                                !.given = @ \cup {l.id : l \in Range(got.leaves)}]
          ELSE LET got == DequeueLoop(SelectQueued(UnseqView(t), cutoff, limit),
                                      tx[t].dequeued, <<>>)
               IN [tx[t] EXCEPT !.pc = "dequeued", !.ret = got.leaves,
                                !.err = got.err, !.dequeued = got.dequeued,
                                !.arg = [limit |-> limit, cutoff |-> cutoff],
                                !.given = @ \cup {l.id : l \in Range(got.leaves)}]]
    /\ UNCHANGED <<wrapped, treeType, qm, tables, submitted>>

\* -------------------------------------------------- ReadWriteTransaction

\* mySQLLogStorage.ReadWriteTransaction, the open: ErrTreeNeedsInit does not
\* stop it, the callback runs on the transaction.
RWBegin(t) ==
    /\ tx[t].op = "idle"
    /\ IF treeHead = {}
       THEN tx' = [tx EXCEPT ![t] = OpenedTxNeedsInit("rw", "run")]
       ELSE \E h \in LatestHeads(treeHead) :
               tx' = [tx EXCEPT ![t] = OpenedTx("rw", "run", h)]
    /\ UNCHANGED <<wrapped, treeType, qm, tables, submitted>>

\* What fetchLatestRoot makes of a query of the latest head that fails with
\* an error other than sql.ErrNoRows: the error lives in the if statement
\* only, the variables Scan has not set are zero, and a root of size 0 and
\* timestamp 0 is returned with revision 0 and no error.
ZeroRoot == [rev |-> 0, size |-> 0, ts |-> 0]

\* mySQLLogStorage.ReadWriteTransaction, the open, when the query of the
\* latest head fails with an error other than sql.ErrNoRows.
RWBeginScanError(t) ==
    /\ tx[t].op = "idle"
    /\ tx' = [tx EXCEPT ![t] = OpenedTx("rw", "run", ZeroRoot)]
    /\ UNCHANGED <<wrapped, treeType, qm, tables, submitted>>

\* The leaves the sequencer hands to UpdateSequencedLeaves: identity hashes
\* with the indices it assigned.
SequencedBatches == SeqsUpTo([id : Hashes, idx : Sizes], MaxBatch)

\* The Merkle leaf hash of the stored leaf with identity hash h.
MerkleOf(t, h) == (CHOOSE l \in LeafView(t) : l.id = h).val

\* Unique keys of SequencedLeafData: (TreeId, SequenceNumber) and (TreeId,
\* LeafIdentityHash).
SeqConflict(rows, seq, id) == \E r \in rows : r.seq = seq \/ r.id = id

SeqLockedByOther(t, seq, id) ==
    \E u \in TxIds \ {t} : SeqConflict(tx[u].insSeq, seq, id)

\* logTreeTX.UpdateSequencedLeaves: every leaf must have been dequeued by
\* this transaction; the sequenced rows are inserted in one statement, and
\* the queue entries of the leaves are removed by their dequeue info.
UpdateSequencedLeaves(t, leaves) ==
    /\ tx[t].op = "rw"
    /\ LET known == \A i \in DOMAIN leaves :
                        \E d \in tx[t].dequeued : d.id = leaves[i].id
           clash == \/ \E i \in DOMAIN leaves :
                          SeqConflict(SeqView(t), leaves[i].idx, leaves[i].id)
                    \/ \E i, j \in DOMAIN leaves :
                          /\ i # j
                          /\ \/ leaves[i].idx = leaves[j].idx
                             \/ leaves[i].id = leaves[j].id
           rows == {[seq |-> leaves[i].idx, id |-> leaves[i].id,
                     mlh |-> MerkleOf(t, leaves[i].id)] : i \in DOMAIN leaves}
           gone == {q \in UnseqView(t) :
                      \E i \in DOMAIN leaves : \E d \in tx[t].dequeued :
                          /\ d.id = leaves[i].id
                          /\ DequeueInfo(q) = d}
       IN /\ known =>
                \A i \in DOMAIN leaves :
                    ~SeqLockedByOther(t, leaves[i].idx, leaves[i].id)
          /\ tx' = [tx EXCEPT ![t] =
                IF ~known
                THEN [tx[t] EXCEPT !.pc = "run", !.ret = <<>>, !.arg = <<>>,
                                   !.err = "NotDequeued"]
                ELSE IF clash
                THEN [tx[t] EXCEPT !.pc = "run", !.ret = <<>>, !.arg = <<>>,
                                   !.err = "DuplicateSequenced"]
                ELSE [tx[t] EXCEPT !.pc = "run", !.ret = <<>>, !.arg = <<>>,
                                   !.err = "none",
                                   !.insSeq = @ \cup rows,
                                   !.delUnseq = @ \cup gone]]
    /\ UNCHANGED <<wrapped, treeType, qm, tables, submitted>>

\* SignedLogRootRow with the tree size in the revision column and the
\* revision in the tree size column.
SignedLogRootRowSwapped(t, size, ts) ==
    [rev |-> size, size |-> tx[t].writeRevision, ts |-> ts]

\* The row insertTreeHeadSQL gets from StoreSignedLogRoot.
SignedLogRootRow(t, size, ts) ==
    [rev |-> tx[t].writeRevision, size |-> size, ts |-> ts]

\* HeadConflict of a table without the key on the revision.
HeadConflictNoKey(rows, rev) == FALSE

\* Unique key of TreeHead: (TreeId, TreeRevision).
HeadConflict(rows, rev) == \E r \in rows : r.rev = rev

HeadLockedByOther(t, rev) ==
    \E u \in TxIds \ {t} : HeadConflict(tx[u].insHead, rev)

\* logTreeTX.StoreSignedLogRoot with a root of this tree size and timestamp,
\* with or without metadata.
StoreSignedLogRoot(t, size, ts, metadata) ==
    /\ tx[t].op = "rw"
    /\ tx[t].writeRevision <= MaxRev
    /\ LET row == SignedLogRootRow(t, size, ts)
       IN /\ ~metadata => ~HeadLockedByOther(t, row.rev)
          /\ tx' = [tx EXCEPT ![t] =
                IF metadata
                THEN [tx[t] EXCEPT !.pc = "run", !.ret = <<>>, !.arg = <<>>,
                                   !.err = "Unimplemented"]
                ELSE IF HeadConflict(HeadView(t), row.rev)
                THEN [tx[t] EXCEPT !.pc = "run", !.ret = <<>>, !.arg = <<>>,
                                   !.err = "DuplicateHead"]
                ELSE [tx[t] EXCEPT !.pc = "run", !.ret = <<>>, !.arg = <<>>,
                                   !.err = "none",
                                   !.insHead = @ \cup {row}]]
    /\ UNCHANGED <<wrapped, treeType, qm, tables, submitted>>

\* mySQLLogStorage.ReadWriteTransaction, the callback has returned nil: the
\* transaction commits.
RWCommit(t) ==
    /\ tx[t].op = "rw"
    /\ CommitTables(t)
    /\ tx' = [tx EXCEPT ![t] = IdleTx]
    /\ UNCHANGED <<wrapped, treeType, qm, submitted>>

\* mySQLLogStorage.ReadWriteTransaction, the callback has returned an
\* error: the deferred Close rolls the transaction back.
RWAbort(t) ==
    /\ tx[t].op = "rw"
    /\ tx' = [tx EXCEPT ![t] = IdleTx]
    /\ UNCHANGED <<wrapped, treeType, qm, tables, submitted>>

\* mySQLLogStorage.ReadWriteTransaction, from the return of the callback:
\* the callback's error is returned and the deferred Close rolls back; else
\* the transaction commits and Commit's error is returned.
ReadWriteTransaction(t, cbErr, ok) ==
    /\ tx[t].op = "rw"
    /\ IF Commits(cbErr) /\ ok
       THEN CommitTables(t)
       ELSE UNCHANGED tables
    /\ tx' = [tx EXCEPT ![t] =
          Returned(<<>>, IF cbErr # "none" THEN cbErr
                         ELSE IF ok THEN "none" ELSE "CommitError")]
    /\ UNCHANGED <<wrapped, treeType, qm, submitted>>

RWStep(t) ==
    \/ RWBegin(t)
    \/ \E limit \in 1..MaxLimit, cutoff \in Times : DequeueLeaves(t, limit, cutoff)
    \/ \E leaves \in SequencedBatches : UpdateSequencedLeaves(t, leaves)
    \/ \E size \in Sizes, ts \in Times, metadata \in BOOLEAN :
          StoreSignedLogRoot(t, size, ts, metadata)
    \/ RWCommit(t)
    \/ RWAbort(t)

\* ----------------------------------------------------------- snapshots

\* mySQLLogStorage.SnapshotForTree: beginInternal; on a tree without a head
\* the caller gets the transaction together with ErrTreeNeedsInit.
SnapshotForTree(t) ==
    /\ tx[t].op = "idle"
    /\ IF treeHead = {}
       THEN tx' = [tx EXCEPT ![t] =
                [OpenedTxNeedsInit("snapshot", "run") EXCEPT
                    !.err = "TreeNeedsInit"]]
       ELSE \E h \in LatestHeads(treeHead) :
               tx' = [tx EXCEPT ![t] = OpenedTx("snapshot", "run", h)]
    /\ UNCHANGED <<wrapped, treeType, qm, tables, submitted>>

\* logTreeTX.GetLeavesByRange on an open transaction.
GetLeavesByRange(t, start, count) ==
    /\ tx[t].op \in {"snapshot", "rw"}
    /\ LET got == getLeavesByRangeInternal(t, start, count)
       IN tx' = [tx EXCEPT ![t] =
                [tx[t] EXCEPT !.pc = "ranged", !.ret = got.leaves,
                              !.err = got.err,
                              !.arg = [start |-> start, count |-> count]]]
    /\ UNCHANGED <<wrapped, treeType, qm, tables, submitted>>

\* logTreeTX.LatestSignedLogRoot: the root beginInternal has read, or
\* ErrTreeNeedsInit when it found none.
LatestSignedLogRoot(t) ==
    /\ tx[t].op \in {"snapshot", "rw"}
    /\ tx' = [tx EXCEPT ![t] =
          IF ~tx[t].hasRoot
          THEN [tx[t] EXCEPT !.pc = "root", !.ret = <<>>, !.arg = <<>>,
                             !.err = "TreeNeedsInit"]
          ELSE [tx[t] EXCEPT !.pc = "root", !.arg = <<>>, !.err = "none",
                             !.ret = <<[rev |-> tx[t].readRev,
                                        size |-> tx[t].rootSize,
                                        ts |-> tx[t].rootTs]>>]]
    /\ UNCHANGED <<wrapped, treeType, qm, tables, submitted>>

\* The reader is done with its snapshot: Close ends the transaction.
SnapshotClose(t) ==
    /\ tx[t].op = "snapshot"
    /\ tx' = [tx EXCEPT ![t] = IdleTx]
    /\ UNCHANGED <<wrapped, treeType, qm, tables, submitted>>

\* ----------------------------------------------------- AddSequencedLeaves

\* The leaves a caller hands to AddSequencedLeaves: leaves of its own with
\* the indices it wants them at.
SequencedLeaf(t, h, idx) == [id |-> h, val |-> t, extra |-> t, idx |-> idx]

AddBatches(t) ==
    SeqsUpTo({SequencedLeaf(t, h, idx) : h \in (1..MaxAddHash) \cup {BadHash},
                                         idx \in Sizes}, MaxBatch)

\* sortLeavesForInsert: the orders sort.Sort may leave the positions in,
\* ascending by identity hash, equal hashes in any order.
InsertOrders(leaves) ==
    {ord \in [DOMAIN leaves -> DOMAIN leaves] :
        /\ \A i, j \in DOMAIN leaves : i # j => ord[i] # ord[j]
        /\ \A i, j \in DOMAIN leaves :
              i < j => leaves[ord[i]].id <= leaves[ord[j]].id}

\* The row insertSequencedLeafSQL writes for a leaf.
SequencedRow(leaf) == [seq |-> leaf.idx, id |-> leaf.id, mlh |-> leaf.val]

\* The writes and the result of logTreeTX.AddSequencedLeaves before its
\* loop.
AddStart(leaves) ==
    [insLeaf |-> {}, insSeq |-> {}, err |-> "none",
     res |-> [i \in DOMAIN leaves |-> "unset"]]

InsertSequencedLeafNoRollback(st, i, leaf, ts) ==
    IF HashLen(leaf.id) # hashSizeBytes
    THEN [st EXCEPT !.err = "FailedPrecondition"]
    ELSE IF LeafDuplicate(leafData \cup st.insLeaf, leaf.id)
    THEN [st EXCEPT !.res[i] = "FAILED_PRECONDITION"]
    ELSE IF SeqConflict(sequenced \cup st.insSeq, leaf.idx, leaf.id)
    THEN [st EXCEPT !.res[i] = "FAILED_PRECONDITION",
                    !.insLeaf = @ \cup {Stamped(leaf, ts)}]
    ELSE [st EXCEPT !.res[i] = "OK",
                    !.insLeaf = @ \cup {Stamped(leaf, ts)},
                    !.insSeq = @ \cup {SequencedRow(leaf)}]

\* logTreeTX.AddSequencedLeaves, one turn of the loop for leaves[i]: the
\* hash size check, the savepoint, the insert into LeafData and the insert
\* into SequencedLeafData. A duplicate in LeafData fails the leaf with
\* nothing to undo; a duplicate in SequencedLeafData fails it and rolls back
\* to the savepoint, which takes the LeafData row of this leaf away again.
InsertSequencedLeaf(st, i, leaf, ts) ==
    IF HashLen(leaf.id) # hashSizeBytes
    THEN [st EXCEPT !.err = "FailedPrecondition"]
    ELSE IF LeafDuplicate(leafData \cup st.insLeaf, leaf.id)
    THEN [st EXCEPT !.res[i] = "FAILED_PRECONDITION"]
    ELSE IF SeqConflict(sequenced \cup st.insSeq, leaf.idx, leaf.id)
    THEN [st EXCEPT !.res[i] = "FAILED_PRECONDITION"]
    ELSE [st EXCEPT !.res[i] = "OK",
                    !.insLeaf = @ \cup {Stamped(leaf, ts)},
                    !.insSeq = @ \cup {SequencedRow(leaf)}]

\* logTreeTX.AddSequencedLeaves, the loop over the sorted leaves from
\* position k of the order on; an error ends it.
RECURSIVE AddSequencedLoop(_, _, _, _, _)
AddSequencedLoop(leaves, ord, k, ts, st) ==
    IF k > Len(leaves) \/ st.err # "none" THEN st
    ELSE AddSequencedLoop(leaves, ord, k + 1, ts,
             InsertSequencedLeaf(st, ord[k], leaves[ord[k]], ts))

\* What AddSequencedLeaves hands back: the status of every leaf, by the
\* position of the leaf in the request.
AddedResult(leaves, st) ==
    [Returned(st.res, "none") EXCEPT !.pc = "added", !.batch = leaves]

\* mySQLLogStorage.AddSequencedLeaves: begin, logTreeTX.AddSequencedLeaves,
\* commit; any error closes the transaction without a commit. The call
\* waits while another transaction holds a row with one of its keys.
AddSequencedLeaves(t, leaves, ts) ==
    /\ tx[t].op = "idle"
    /\ \A i \in DOMAIN leaves :
          /\ ~LeafLockedByOther(t, leaves[i].id)
          /\ ~SeqLockedByOther(t, leaves[i].idx, leaves[i].id)
    /\ \E ord \in InsertOrders(leaves) :
          LET st == AddSequencedLoop(leaves, ord, 1, ts, AddStart(leaves))
              failed == IF treeHead = {} THEN "TreeNeedsInit" ELSE st.err
          IN IF failed # "none"
             THEN /\ tx' = [tx EXCEPT ![t] = Returned(<<>>, failed)]
                  /\ UNCHANGED <<leafData, sequenced>>
             ELSE /\ tx' = [tx EXCEPT ![t] = AddedResult(leaves, st)]
                  /\ leafData' = leafData \cup st.insLeaf
                  /\ sequenced' = sequenced \cup st.insSeq
    /\ UNCHANGED <<wrapped, treeType, qm, unsequenced, treeHead, headLog,
                   dequeuedLog, received, trees, treeControl, atx, submitted,
                   subtree>>

\* ------------------------------------------------------ the quota manager

\* quota.Spec: the group and kind of a quota.
QuotaSpecs == [Group : {"Global", "Tree", "User"}, Kind : {"Read", "Write"}]

GlobalWrite == [Group |-> "Global", Kind |-> "Write"]

\* postgresqlqm.QuotaManager with its configuration, the row count the
\* backend's table statistics hold for Unsequenced, and the last call
\* with its answer; denied records that a call has been refused, held
\* the tokens each writer has been granted and has not yet queued leaves
\* for.
QuotaManager(max, useSelectCount, stats) ==
    [MaxUnsequencedRows |-> max, UseSelectCount |-> useSelectCount,
     stats |-> stats, call |-> "none", numTokens |-> 0, specs |-> <<>>,
     err |-> "none", denied |-> FALSE, held |-> [t \in TxIds |-> 0]]

\* No quota manager is in use.
NoQuota == QuotaManager(0, TRUE, 0)

\* The backlog the quota manager counts with the rows of LeafData.
countLeafData(q) ==
    IF q.UseSelectCount THEN Cardinality(leafData) ELSE q.stats

\* The backlog the quota manager reads: SELECT COUNT(*) FROM Unsequenced
\* over the committed rows, or the row count of the table statistics.
countUnsequenced(q) ==
    IF q.UseSelectCount THEN Cardinality(unsequenced) ELSE q.stats

\* GetTokens that refuses a request that fills the quota exactly.
GetTokensUpTo(q, numTokens, specs) ==
    IF \E i \in DOMAIN specs :
          /\ specs[i] = GlobalWrite
          /\ countUnsequenced(q) + numTokens >= q.MaxUnsequencedRows
    THEN "ErrTooManyUnsequencedRows"
    ELSE "none"

\* QuotaManager.GetTokens: a Global-Write spec is refused when the backlog
\* and the tokens asked for exceed MaxUnsequencedRows; no other spec is
\* looked at.
GetTokensOf(q, numTokens, specs) ==
    IF \E i \in DOMAIN specs :
          /\ specs[i] = GlobalWrite
          /\ countUnsequenced(q) + numTokens > q.MaxUnsequencedRows
    THEN "ErrTooManyUnsequencedRows"
    ELSE "none"

GetTokens(numTokens, specs) ==
    /\ qm' = [qm EXCEPT
                 !.call = "GetTokens",
                 !.numTokens = numTokens,
                 !.specs = specs,
                 !.err = GetTokensOf(qm, numTokens, specs),
                 !.denied = @ \/ GetTokensOf(qm, numTokens, specs) # "none"]
    /\ UNCHANGED <<wrapped, treeType, tables, tx, submitted>>

\* PutTokens that adds the tokens to the quota.
PutTokensRefilling(numTokens, specs) ==
    /\ qm' = [qm EXCEPT !.call = "PutTokens", !.numTokens = numTokens,
                        !.specs = specs, !.err = "none",
                        !.MaxUnsequencedRows = @ + numTokens]
    /\ UNCHANGED <<wrapped, treeType, tables, tx, submitted>>

\* QuotaManager.PutTokens: returns success and does nothing.
PutTokens(numTokens, specs) ==
    /\ qm' = [qm EXCEPT !.call = "PutTokens", !.numTokens = numTokens,
                        !.specs = specs, !.err = "none"]
    /\ UNCHANGED <<wrapped, treeType, tables, tx, submitted>>

\* QuotaManager.ResetQuota: returns success and does nothing.
ResetQuota(specs) ==
    /\ qm' = [qm EXCEPT !.call = "ResetQuota", !.numTokens = 0,
                        !.specs = specs, !.err = "none"]
    /\ UNCHANGED <<wrapped, treeType, tables, tx, submitted>>

\* QuotaManager.PeekTokens: returns success and does nothing.
PeekTokens(specs) ==
    /\ qm' = [qm EXCEPT !.call = "PeekTokens", !.numTokens = 0,
                        !.specs = specs, !.err = "none"]
    /\ UNCHANGED <<wrapped, treeType, tables, tx, submitted>>

\* A writer that grants itself the tokens without asking.
TokensUnasked(t, numTokens) ==
    /\ tx[t].op = "idle"
    /\ qm.held[t] = 0
    /\ qm' = [qm EXCEPT !.call = "GetTokens",
                        !.numTokens = numTokens,
                        !.specs = <<GlobalWrite>>,
                        !.err = "none",
                        !.held[t] = numTokens]
    /\ UNCHANGED <<wrapped, treeType, tables, tx, submitted>>

\* A writer asks for Global-Write tokens before it queues leaves, and holds
\* them when GetTokens succeeds.
TokensFor(t, numTokens) ==
    /\ tx[t].op = "idle"
    /\ qm.held[t] = 0
    /\ LET err == GetTokensOf(qm, numTokens, <<GlobalWrite>>)
       IN  qm' = [qm EXCEPT !.call = "GetTokens",
                            !.numTokens = numTokens,
                            !.specs = <<GlobalWrite>>,
                            !.err = err,
                            !.denied = @ \/ err # "none",
                            !.held[t] = IF err = "none" THEN numTokens ELSE 0]
    /\ UNCHANGED <<wrapped, treeType, tables, tx, submitted>>

\* The writer takes the result of its QueueLeaves call; its tokens are used.
WriterReturn(t) ==
    /\ tx[t].op = "returned"
    /\ tx' = [tx EXCEPT ![t] = IdleTx]
    /\ qm' = [qm EXCEPT !.held[t] = 0]
    /\ UNCHANGED <<wrapped, treeType, tables, submitted>>

\* The backend brings the statistics of Unsequenced up to date.
Analyze ==
    /\ qm.stats # Cardinality(unsequenced)
    /\ qm' = [qm EXCEPT !.stats = Cardinality(unsequenced)]
    /\ UNCHANGED <<wrapped, treeType, tables, tx, submitted>>

\* ------------------------------------------------- concurrent QueueLeaves

FirstHead == [rev |-> 0, size |-> 0, ts |-> 1]

\* A LOG tree with its first head stored and nothing queued.
InitQueue ==
    /\ treeType = "LOG"
    /\ leafData = {}
    /\ unsequenced = {}
    /\ sequenced = {}
    /\ treeHead = {FirstHead}
    /\ headLog = <<FirstHead>>
    /\ dequeuedLog = {}
    /\ received = {}
    /\ trees = {LogTree(treeType)}
    /\ treeControl = {0}
    /\ atx = [t \in TxIds |-> NoAdminTx]
    /\ qm = NoQuota
    /\ tx = [t \in TxIds |-> IdleTx]
    /\ submitted = {}
    /\ subtree = {}
    /\ wrapped = NoWrap

NextQueue ==
    \E t \in TxIds :
        \/ \E batch \in QueueBatches(t), qts \in Times : QBegin(t, batch, qts)
        \/ QInsert(t)
        \/ QFinish(t)
        \/ Return(t)

SpecQueue == InitQueue /\ [][NextQueue]_vars

\* The callers run on: a call that can take its next step takes it, and an
\* insert that waits for a row lock gets the row when the holder has ended.
FairQueue ==
    \A t \in TxIds : SF_vars(QInsert(t)) /\ WF_vars(QFinish(t))

SpecQueueFair == InitQueue /\ [][NextQueue]_vars /\ FairQueue

\* ------------------------------------------------------------ the log

\* A LOG tree as CreateTree leaves it: no head, no leaves.
Init ==
    /\ treeType = "LOG"
    /\ leafData = {}
    /\ unsequenced = {}
    /\ sequenced = {}
    /\ treeHead = {}
    /\ headLog = <<>>
    /\ dequeuedLog = {}
    /\ received = {}
    /\ trees = {LogTree(treeType)}
    /\ treeControl = {0}
    /\ atx = [t \in TxIds |-> NoAdminTx]
    /\ qm = NoQuota
    /\ tx = [t \in TxIds |-> IdleTx]
    /\ submitted = {}
    /\ subtree = {}
    /\ wrapped = NoWrap

\* ------------------------------------------------------ the tree heads

NextHead ==
    \E t \in TxIds :
        \/ RWBegin(t)
        \/ \E size \in Sizes, ts \in Times, metadata \in BOOLEAN :
              StoreSignedLogRoot(t, size, ts, metadata)
        \/ RWCommit(t)
        \/ RWAbort(t)

SpecHead == Init /\ [][NextHead]_vars

\* ------------------------------------------------------- the sequencer

\* One caller queues leaves one at a time, another runs sequencing
\* transactions.

NextSeq ==
    \/ \E h \in Hashes, qts \in Times : QBegin(1, <<LeafOf(1, h)>>, qts)
    \/ QInsert(1)
    \/ QFinish(1)
    \/ Return(1)
    \/ RWStep(2)

SpecSeq == InitQueue /\ [][NextSeq]_vars

\* A tree of either log type with its first head stored and no leaves.
InitDeq ==
    /\ treeType \in {"LOG", "PREORDERED_LOG"}
    /\ leafData = {}
    /\ unsequenced = {}
    /\ sequenced = {}
    /\ treeHead = {FirstHead}
    /\ headLog = <<FirstHead>>
    /\ dequeuedLog = {}
    /\ received = {}
    /\ trees = {LogTree(treeType)}
    /\ treeControl = {0}
    /\ atx = [t \in TxIds |-> NoAdminTx]
    /\ qm = NoQuota
    /\ tx = [t \in TxIds |-> IdleTx]
    /\ submitted = {}
    /\ subtree = {}
    /\ wrapped = NoWrap

\* The sequencer without the tree heads. Leaves reach a LOG tree through
\* QueueLeaves and a PREORDERED_LOG tree through AddSequencedLeaves, one at
\* a time; the other caller dequeues and stores sequence numbers.
NextDeq ==
    \/ /\ treeType = "LOG"
       /\ \E h \in Hashes, qts \in Times : QBegin(1, <<LeafOf(1, h)>>, qts)
    \/ QInsert(1)
    \/ QFinish(1)
    \/ /\ treeType = "PREORDERED_LOG"
       /\ \E h \in Hashes, idx \in Sizes, ts \in Times :
             AddSequencedLeaves(1, <<SequencedLeaf(1, h, idx)>>, ts)
    \/ Return(1)
    \/ RWBegin(2)
    \/ \E limit \in 1..MaxLimit, cutoff \in Times : DequeueLeaves(2, limit, cutoff)
    \/ \E leaves \in SequencedBatches : UpdateSequencedLeaves(2, leaves)
    \/ RWCommit(2)
    \/ RWAbort(2)

SpecDeq == InitDeq /\ [][NextDeq]_vars

\* ---------------------------------------------------------- the readers

\* The arguments GetLeavesByRange is called with.
Starts == (0 - 1)..(MaxSize + 1)
Counts == 0..(MaxSize + 1)

\* One caller queues leaves or reads ranges from a snapshot, the other runs
\* sequencing transactions and stores tree heads.
NextRange ==
    \/ \E h \in Hashes, v \in TxIds : QBegin(1, <<LeafOf(v, h)>>, 1)
    \/ QInsert(1)
    \/ QFinish(1)
    \/ Return(1)
    \/ SnapshotForTree(1)
    \/ \E start \in Starts, count \in Counts : GetLeavesByRange(1, start, count)
    \/ SnapshotClose(1)
    \/ RWBegin(2)
    \/ DequeueLeaves(2, MaxLimit, MaxTime)
    \/ \E leaves \in SequencedBatches : UpdateSequencedLeaves(2, leaves)
    \/ \E size \in TreeSizes : StoreSignedLogRoot(2, size, MaxTime, FALSE)
    \/ RWCommit(2)

SpecRange == InitQueue /\ [][NextRange]_vars

\* ------------------------------------------------- the tree without head

\* A tree of either log type as CreateTree leaves it: no head, no leaves.
InitEmpty ==
    /\ treeType \in {"LOG", "PREORDERED_LOG"}
    /\ leafData = {}
    /\ unsequenced = {}
    /\ sequenced = {}
    /\ treeHead = {}
    /\ headLog = <<>>
    /\ dequeuedLog = {}
    /\ received = {}
    /\ trees = {LogTree(treeType)}
    /\ treeControl = {0}
    /\ atx = [t \in TxIds |-> NoAdminTx]
    /\ qm = NoQuota
    /\ tx = [t \in TxIds |-> IdleTx]
    /\ submitted = {}
    /\ subtree = {}
    /\ wrapped = NoWrap

\* One caller adds leaves and reads the latest root from snapshots, the
\* other runs read-write transactions that read and store the root.
NextEmpty ==
    \/ /\ treeType = "LOG"
       /\ \E h \in Hashes : QBegin(1, <<LeafOf(1, h)>>, 1)
    \/ QInsert(1)
    \/ QFinish(1)
    \/ /\ treeType = "PREORDERED_LOG"
       /\ \E h \in Hashes, idx \in Sizes :
             AddSequencedLeaves(1, <<SequencedLeaf(1, h, idx)>>, 1)
    \/ Return(1)
    \/ SnapshotForTree(1)
    \/ SnapshotClose(1)
    \/ RWBegin(2)
    \/ \E t \in TxIds : LatestSignedLogRoot(t)
    \/ \E size \in Sizes, ts \in Times : StoreSignedLogRoot(2, size, ts, FALSE)
    \/ RWCommit(2)
    \/ RWAbort(2)

SpecEmpty == InitEmpty /\ [][NextEmpty]_vars

\* ------------------------------------------------- the preordered log

\* A PREORDERED_LOG tree with its first head stored and no leaves.
InitPre ==
    /\ treeType = "PREORDERED_LOG"
    /\ leafData = {}
    /\ unsequenced = {}
    /\ sequenced = {}
    /\ treeHead = {FirstHead}
    /\ headLog = <<FirstHead>>
    /\ dequeuedLog = {}
    /\ received = {}
    /\ trees = {LogTree(treeType)}
    /\ treeControl = {0}
    /\ atx = [t \in TxIds |-> NoAdminTx]
    /\ qm = NoQuota
    /\ tx = [t \in TxIds |-> IdleTx]
    /\ submitted = {}
    /\ subtree = {}
    /\ wrapped = NoWrap

\* Two callers add batches of sequenced leaves.
NextPre ==
    \E t \in TxIds :
        \/ \E leaves \in AddBatches(t), ts \in Times :
              AddSequencedLeaves(t, leaves, ts)
        \/ Return(t)

SpecPre == InitPre /\ [][NextPre]_vars

\* ------------------------------------------------ ReadWriteTransaction

\* One caller runs ReadWriteTransaction of the log storage and two that of
\* the admin storage: the callback stores a tree head or creates trees, and
\* returns an error or none; the commit succeeds or fails.
NextRW ==
    \/ RWBegin(1)
    \/ \E size \in Sizes : StoreSignedLogRoot(1, size, MaxTime, FALSE)
    \/ \E cbErr \in CallbackErrors, ok \in BOOLEAN :
          ReadWriteTransaction(1, cbErr, ok)
    \/ Return(1)
    \/ \E t \in TxIds :
          \/ AdminBegin(t, "rw")
          \/ \E id \in TreeIds : CreateTree(t, "LOG", id, 1)
          \/ \E cbErr \in CallbackErrors, ok \in BOOLEAN, closeOk \in BOOLEAN :
                AdminReadWriteTransaction(t, cbErr, ok, closeOk)
          \/ AdminDrop(t)

SpecRW == Init /\ [][NextRW]_vars

\* ---------------------------------------------------- the admin callers

\* Two callers hold an admin transaction each, create trees in it and call
\* Commit and Close in any order and number.
NextAdmin ==
    \E t \in TxIds :
        \/ AdminBegin(t, "tx")
        \/ \E type \in TreeTypes, id \in TreeIds : CreateTree(t, type, id, 1)
        \/ \E ok \in BOOLEAN : AdminCommit(t, ok)
        \/ \E ok \in BOOLEAN : AdminClose(t, ok)
        \/ AdminDrop(t)

SpecAdmin == Init /\ [][NextAdmin]_vars

\* ------------------------------------------------- the life of a tree

\* Two callers run admin ReadWriteTransactions on the tree of the log: they
\* read it, freeze it, soft-delete, undelete and hard-delete it, on a
\* backend with or without cascading foreign keys. Caller t reads t from
\* the clock.
NextTrees ==
    \E t \in TxIds :
        \/ AdminBegin(t, "rw")
        \/ GetTree(t, 0)
        \/ UpdateTree(t, 0, SetState("FROZEN"), t)
        \/ UpdateTreeRow(t)
        \/ SoftDeleteTree(t, 0, t)
        \/ UndeleteTree(t, 0)
        \/ UpdateDeletedRow(t)
        \/ HardDeleteTree(t, 0)
        \/ \E cascade \in BOOLEAN : HardDeleteRows(t, cascade)
        \/ \E cbErr \in CallbackErrors :
              AdminReadWriteTransaction(t, cbErr, TRUE, TRUE)
        \/ AdminDrop(t)

SpecTrees == InitQueue /\ [][NextTrees]_vars

\* ------------------------------------------- the log of a changed tree

\* One caller reads, freezes, unfreezes, soft-deletes and undeletes the
\* tree of the log in admin ReadWriteTransactions while another queues a
\* leaf.
NextFrozen ==
    \/ AdminBegin(2, "rw")
    \/ GetTree(2, 0)
    \/ \E state \in TreeStates : UpdateTree(2, 0, SetState(state), MaxTime)
    \/ UpdateTreeRow(2)
    \/ SoftDeleteTree(2, 0, MaxTime)
    \/ UndeleteTree(2, 0)
    \/ UpdateDeletedRow(2)
    \/ AdminReadWriteTransaction(2, "none", TRUE, TRUE)
    \/ AdminDrop(2)
    \/ \E h \in Hashes : QBegin(1, <<LeafOf(1, h)>>, 1)
    \/ QInsert(1)
    \/ QFinish(1)
    \/ Return(1)

SpecFrozen == InitQueue /\ [][NextFrozen]_vars

\* ------------------------------------------------------ the quota ceiling

\* The quota manager over a queue of any length up to MaxBacklog: the
\* backlog is queued before the first call, as setUnsequencedRows does, and
\* the table statistics hold the count or have not seen the rows yet.
InitTokens ==
    /\ treeType = "LOG"
    /\ \E k \in 0..MaxBacklog :
          /\ leafData = {Stamped(LeafOf(1, i), 1) : i \in 1..k}
          /\ \E useSelectCount \in BOOLEAN, stats \in {0, k} :
                qm = QuotaManager(maxUnsequenced, useSelectCount, stats)
    /\ unsequenced = {QueueRow(l) : l \in leafData}
    /\ sequenced = {}
    /\ treeHead = {FirstHead}
    /\ headLog = <<FirstHead>>
    /\ dequeuedLog = {}
    /\ received = {}
    /\ trees = {LogTree(treeType)}
    /\ treeControl = {0}
    /\ atx = [t \in TxIds |-> NoAdminTx]
    /\ tx = [t \in TxIds |-> IdleTx]
    /\ submitted = {}
    /\ subtree = {}
    /\ wrapped = NoWrap

\* One call of GetTokens on each queue, before or after the backend has
\* brought the statistics up to date.
NextTokens ==
    \/ \E numTokens \in 1..MaxTokens, specs \in SeqsUpTo(QuotaSpecs, MaxSpecs) :
          /\ qm.numTokens = 0
          /\ GetTokens(numTokens, specs)
    \/ Analyze

SpecTokens == InitTokens /\ [][NextTokens]_vars

\* The calls of the quota manager in any order, each with one spec.
NextNoops ==
    \E numTokens \in 1..MaxTokens, specs \in SeqsUpTo(QuotaSpecs, 1) :
        \/ GetTokens(numTokens, specs)
        \/ PutTokens(numTokens, specs)
        \/ ResetQuota(specs)
        \/ PeekTokens(specs)

SpecNoops == InitTokens /\ [][NextNoops]_vars

\* A quota of as many rows as there are leaves, counted with SELECT
\* COUNT(*), on a tree with nothing queued.
InitQuota ==
    /\ treeType = "LOG"
    /\ leafData = {}
    /\ unsequenced = {}
    /\ sequenced = {}
    /\ treeHead = {FirstHead}
    /\ headLog = <<FirstHead>>
    /\ dequeuedLog = {}
    /\ received = {}
    /\ trees = {LogTree(treeType)}
    /\ treeControl = {0}
    /\ atx = [t \in TxIds |-> NoAdminTx]
    /\ qm = QuotaManager(MaxHash, TRUE, 0)
    /\ tx = [t \in TxIds |-> IdleTx]
    /\ submitted = {}
    /\ subtree = {}
    /\ wrapped = NoWrap

\* One caller queues leaves one at a time and asks for a token, another
\* runs sequencing transactions.
NextQuota ==
    \/ \E h \in Hashes : QBegin(1, <<LeafOf(1, h)>>, 1)
    \/ QInsert(1)
    \/ QFinish(1)
    \/ Return(1)
    \/ RWBegin(2)
    \/ DequeueLeaves(2, MaxLimit, MaxTime)
    \/ \E leaves \in SequencedBatches : UpdateSequencedLeaves(2, leaves)
    \/ RWCommit(2)
    \/ GetTokens(1, <<GlobalWrite>>)

SpecQuota == InitQuota /\ [][NextQuota]_vars

\* Two writers, each asking for one token before it queues one leaf, on a
\* queue that may hold one row fewer than there are leaves.
InitThrottle ==
    /\ treeType = "LOG"
    /\ leafData = {}
    /\ unsequenced = {}
    /\ sequenced = {}
    /\ treeHead = {FirstHead}
    /\ headLog = <<FirstHead>>
    /\ dequeuedLog = {}
    /\ received = {}
    /\ trees = {LogTree(treeType)}
    /\ treeControl = {0}
    /\ atx = [t \in TxIds |-> NoAdminTx]
    /\ qm = QuotaManager(MaxHash - 1, TRUE, 0)
    /\ tx = [t \in TxIds |-> IdleTx]
    /\ submitted = {}
    /\ subtree = {}
    /\ wrapped = NoWrap

NextThrottle ==
    \E t \in TxIds :
        \/ TokensFor(t, 1)
        \/ \E h \in Hashes, qts \in Times :
              /\ qm.held[t] = 1
              /\ QBegin(t, <<LeafOf(t, h)>>, qts)
        \/ QInsert(t)
        \/ QFinish(t)
        \/ WriterReturn(t)

SpecThrottle == InitThrottle /\ [][NextThrottle]_vars

\* ------------------------------------------------------------ the claims

InFlight(t) == tx[t].op \notin {"idle", "returned"}

RowsOf(table, h) == {r \in table : r.id = h}

\* C1: once every QueueLeaves call has committed, the identity hashes in
\* LeafData are exactly the distinct hashes submitted, each in one row; no
\* accepted call fails, and every leaf a call returns, queued or
\* ALREADY_EXISTS, is the one row stored for its hash.
C1_DeterministicDedup ==
    /\ (\A t \in TxIds : ~InFlight(t)) => {r.id : r \in leafData} = submitted
    /\ \A h \in Hashes : Cardinality(RowsOf(leafData, h)) <= 1
    /\ \A t \in TxIds : tx[t].op = "returned" =>
        /\ tx[t].err \in {"none", "InvalidHashLength"}
        /\ \A i \in DOMAIN tx[t].ret :
              RowsOf(leafData, tx[t].ret[i].leaf.id) = {tx[t].ret[i].leaf}

\* Both callers have submitted the same hash and all calls have committed:
\* one of them holds the other's row as ALREADY_EXISTS.
C1_Witness ==
    /\ \A t \in TxIds : ~InFlight(t)
    /\ \E t \in TxIds : \E i \in DOMAIN tx[t].ret :
          /\ tx[t].ret[i].status = "ALREADY_EXISTS"
          /\ tx[t].ret[i].leaf.val # t
          /\ tx[t].ret[i].leaf \in leafData

\* C2: a QueueLeaves call that ends while a row with hash H is already
\* committed does not fail, returns that row with ALREADY_EXISTS at the
\* positions of H, and leaves the queue entries of H as they were: one.
C2_RequeueReturnsFirst ==
    [][\A t \in TxIds :
          (tx[t].op = "queue" /\ tx'[t].op = "returned") =>
              /\ tx'[t].err = "none"
              /\ \A i \in DOMAIN tx[t].batch : \A r \in leafData :
                    r.id = tx[t].batch[i].id =>
                        /\ tx'[t].ret[i] = [leaf |-> r, status |-> "ALREADY_EXISTS"]
                        /\ RowsOf(unsequenced', r.id) = RowsOf(unsequenced, r.id)
                        /\ Cardinality(RowsOf(unsequenced', r.id)) = 1]_vars

\* A call has returned, as ALREADY_EXISTS, a row with another caller's value
\* and extra data, and the hash has one queue entry: the one queued with
\* that row.
C2_Witness ==
    \E t \in TxIds : \E i \in DOMAIN tx[t].ret :
        /\ tx[t].ret[i].status = "ALREADY_EXISTS"
        /\ tx[t].ret[i].leaf.val # t
        /\ tx[t].ret[i].leaf.extra # t
        /\ RowsOf(unsequenced, tx[t].ret[i].leaf.id) =
              {QueueRow(tx[t].ret[i].leaf)}

\* A step of DequeueLeaves in transaction t.
DequeueStep(t) == tx'[t].pc = "dequeued" /\ tx'[t] # tx[t]

\* Row r is among the leaves DequeueLeaves returned.
ReturnedRow(ret, r) == \E i \in DOMAIN ret : ret[i] = DequeuedLeaf(r)

\* The eligible rows that come before r in the dequeue order.
EarlierEligible(rows, cutoff, r) ==
    {s \in Eligible(rows, cutoff) : s # r /\ QueueOrderLeq(s, r)}

\* C3: after any sequence of committed transactions the sequence numbers
\* stored for the tree are exactly 0 .. tree_size - 1 of the latest tree
\* head, each once.
C3_DenseSequence ==
    Len(headLog) > 0 =>
        /\ {r.seq : r \in sequenced} = 0..(headLog[Len(headLog)].size - 1)
        /\ Cardinality(sequenced) = headLog[Len(headLog)].size

\* C4: StoreSignedLogRoot stores no head whose tree size is smaller than
\* the tree size of the head the transaction read, so tree sizes never
\* shrink from one committed head to the next.
C4_TreeSizeNeverShrinks ==
    /\ \A t \in TxIds : \A h \in tx[t].insHead : h.size >= tx[t].rootSize
    /\ \A i \in 1..(Len(headLog) - 1) : headLog[i + 1].size >= headLog[i].size

\* C5: StoreSignedLogRoot stores no head whose timestamp is not greater
\* than the timestamp of the head the transaction read, so timestamps grow
\* strictly from one committed head to the next.
C5_TimestampIncreases ==
    /\ \A t \in TxIds : \A h \in tx[t].insHead :
          tx[t].hasRoot => h.ts > tx[t].rootTs
    /\ \A i \in 1..(Len(headLog) - 1) : headLog[i + 1].ts > headLog[i].ts

\* C6: a head is stored at the write revision of its transaction, which is
\* the revision the transaction read plus one; the revisions of the
\* committed heads grow strictly and no two heads share a revision.
C6_RevisionsIncrease ==
    /\ \A t \in TxIds : \A h \in tx[t].insHead :
          /\ h.rev = tx[t].writeRevision
          /\ tx[t].hasRoot => h.rev = tx[t].readRev + 1
    /\ \A i \in 1..(Len(headLog) - 1) : headLog[i + 1].rev > headLog[i].rev
    /\ \A h, g \in treeHead : h.rev = g.rev => h = g
    /\ treeHead = Range(headLog)

\* Two heads are committed, the second by a transaction that read the first.
C6_Witness ==
    /\ Len(headLog) = 2
    /\ headLog[2].rev = headLog[1].rev + 1
    /\ \E t \in TxIds : tx[t].hasRoot /\ tx[t].readRev = headLog[2].rev

AddStep(t) == tx[t].op = "idle" /\ tx'[t].pc = "added"

\* The sequence number or the identity hash of the leaf is sequenced.
AlreadySequenced(leaf) ==
    \E r \in sequenced : r.seq = leaf.idx \/ r.id = leaf.id

\* C10: AddSequencedLeaves gives FAILED_PRECONDITION to a leaf whose
\* sequence number or identity hash is already sequenced and leaves no row
\* of it behind in the leaf table or the sequence table; the leaves of the
\* batch that clash with nothing are stored in both tables with status OK,
\* and the rows the call adds are the rows of its OK leaves.
C10_ConflictLeavesNoRow ==
    [][\A t \in TxIds :
          AddStep(t) =>
              LET leaves == tx'[t].batch
                  res == tx'[t].ret
                  stored == {i \in DOMAIN leaves : res[i] = "OK"}
              IN /\ DOMAIN res = DOMAIN leaves
                 /\ \A i \in DOMAIN leaves :
                       /\ res[i] \in {"OK", "FAILED_PRECONDITION"}
                       /\ AlreadySequenced(leaves[i]) =>
                             res[i] = "FAILED_PRECONDITION"
                       /\ (/\ ~AlreadySequenced(leaves[i])
                           /\ \A j \in DOMAIN leaves \ {i} :
                                 /\ leaves[j].id # leaves[i].id
                                 /\ leaves[j].idx # leaves[i].idx)
                             => res[i] = "OK"
                 /\ sequenced' \ sequenced =
                       {SequencedRow(leaves[i]) : i \in stored}
                 /\ \E ts \in Times :
                       leafData' \ leafData =
                           {Stamped(leaves[i], ts) : i \in stored}
                 /\ leafData \subseteq leafData'
                 /\ sequenced \subseteq sequenced']_vars

\* A batch of two has returned: one leaf asked for a sequence number that an
\* earlier call had given to another hash, it failed and has no row in the
\* leaf table; the other leaf is stored in both tables.
C10_Witness ==
    \E t \in TxIds :
        /\ tx[t].pc = "added"
        /\ \E i, j \in DOMAIN tx[t].batch :
              /\ tx[t].ret[i] = "FAILED_PRECONDITION"
              /\ tx[t].ret[j] = "OK"
              /\ \E r \in sequenced :
                    /\ r.seq = tx[t].batch[i].idx
                    /\ \A k \in DOMAIN tx[t].batch : tx[t].batch[k].id # r.id
              /\ RowsOf(leafData, tx[t].batch[i].id) = {}
              /\ RowsOf(sequenced, tx[t].batch[i].id) = {}
              /\ SequencedRow(tx[t].batch[j]) \in sequenced
              /\ RowsOf(leafData, tx[t].batch[j].id) # {}

\* The next insert of QueueLeaves call t waits for a row another open
\* transaction holds.
Waiting(t) ==
    /\ tx[t].op = "queue"
    /\ tx[t].todo # {}
    /\ \A i \in NextInOrder(tx[t].batch, tx[t].todo) :
          LeafLockedByOther(t, tx[t].batch[i].id)

\* C11: concurrent QueueLeaves calls never deadlock, whatever the order of
\* the leaves in their batches: the calls never all wait for each other,
\* every call that has begun commits and returns, and when no call is
\* running the stored identity hashes are the union of the batches.
C11_NoDeadlock ==
    /\ [](\E t \in TxIds : ~Waiting(t))
    /\ []((\A t \in TxIds : ~InFlight(t)) =>
             {r.id : r \in leafData} = submitted)
    /\ \A t \in TxIds :
          (tx[t].op = "queue") ~> (tx[t].op = "returned" /\ tx[t].err = "none")

\* Two calls hold the same two leaves in opposite orders; one has inserted
\* a leaf and the other waits for it.
C11_Witness ==
    /\ tx[1].op = "queue" /\ tx[2].op = "queue"
    /\ Len(tx[1].batch) = 2 /\ Len(tx[2].batch) = 2
    /\ tx[1].batch[1].id = tx[2].batch[2].id
    /\ tx[1].batch[2].id = tx[2].batch[1].id
    /\ tx[1].batch[1].id # tx[1].batch[2].id
    /\ tx[1].insLeaf # {}
    /\ Waiting(2)

\* A step of GetLeavesByRange in transaction t.
RangeStep(t) == tx'[t].pc = "ranged" /\ tx'[t] # tx[t]

\* The committed leaves with their sequence numbers, as a reader gets them.
CommittedLeaves ==
    {[idx |-> q.seq, id |-> l.id, mlh |-> q.mlh, val |-> l.val,
      extra |-> l.extra, qts |-> l.qts] :
        <<l, q>> \in {p \in leafData \X sequenced : p[1].id = p[2].id}}

\* C12: on a LOG tree with 0 <= start < tree_size and count > 0,
\* GetLeavesByRange either fails without leaves or returns exactly
\* min(count, tree_size - start) leaves with the indices start, start + 1,
\* ... all below tree_size: never a short or gapped result.
C12_DenseOrError ==
    [][\A t \in TxIds :
          (/\ RangeStep(t)
           /\ treeType = "LOG"
           /\ tx'[t].arg.count > 0
           /\ tx'[t].arg.start >= 0
           /\ tx'[t].arg.start < tx[t].rootSize) =>
              LET ret == tx'[t].ret
                  start == tx'[t].arg.start
                  count == tx'[t].arg.count
                  most == tx[t].rootSize - start
              IN \/ tx'[t].err # "none" /\ ret = <<>>
                 \/ /\ tx'[t].err = "none"
                    /\ Len(ret) = IF count < most THEN count ELSE most
                    /\ \A k \in DOMAIN ret :
                          /\ ret[k].idx = start + k - 1
                          /\ ret[k].idx < tx[t].rootSize]_vars

C14_RangeReturnsQueued ==
    [][\A t \in TxIds :
          (/\ RangeStep(t)
           /\ treeType = "LOG"
           /\ tx[t].rootSize > 0
           /\ tx'[t].arg = [start |-> 0, count |-> tx[t].rootSize]
           /\ \A i \in 0..(tx[t].rootSize - 1) :
                 \E q \in sequenced : q.seq = i) =>
              /\ tx'[t].err = "none"
              /\ Len(tx'[t].ret) = tx[t].rootSize
              /\ \A k \in DOMAIN tx'[t].ret :
                    /\ tx'[t].ret[k].idx = k - 1
                    /\ \E q \in sequenced :
                          q.seq = k - 1 /\ q.id = tx'[t].ret[k].id
                    /\ \E r \in received :
                          /\ r.id = tx'[t].ret[k].id
                          /\ r.val = tx'[t].ret[k].val
                          /\ r.extra = tx'[t].ret[k].extra]_vars

\* A reader has got both leaves of a tree of size 2, the greater hash at
\* index 0, with different values.
C14_Witness ==
    /\ tx[1].op = "snapshot"
    /\ tx[1].pc = "ranged"
    /\ tx[1].rootSize = 2
    /\ tx[1].arg = [start |-> 0, count |-> 2]
    /\ Len(tx[1].ret) = 2
    /\ tx[1].ret[1].id > tx[1].ret[2].id
    /\ tx[1].ret[1].val # tx[1].ret[2].val

\* C15: a leaf GetLeavesByRange has returned from a snapshot stays the
\* committed leaf at its index for good, so that every later read at that
\* index returns it: the result a reader holds agrees with the committed
\* rows however the tree moves on, and committed leaf rows and sequenced
\* rows are never removed or changed.
C15_SequencedNeverChange ==
    /\ [](\A t \in TxIds :
            (tx[t].op = "snapshot" /\ tx[t].pc = "ranged") =>
                \A k \in DOMAIN tx[t].ret :
                    {c \in CommittedLeaves : c.idx = tx[t].ret[k].idx}
                        = {tx[t].ret[k]})
    /\ [][/\ sequenced \subseteq sequenced'
          /\ leafData \subseteq leafData'
          /\ \A q, r \in sequenced' : (q.seq = r.seq \/ q.id = r.id) => q = r
          /\ \A l, m \in leafData' : l.id = m.id => l = m]_vars

\* A reader holds the leaf at index 0 it read at tree size 1, and the tree
\* has since got a second leaf at index 1.
C15_Witness ==
    /\ tx[1].op = "snapshot"
    /\ tx[1].pc = "ranged"
    /\ tx[1].rootSize = 1
    /\ Len(tx[1].ret) = 1
    /\ tx[1].ret[1].idx = 0
    /\ \E q \in sequenced : q.seq = 1

\* C16: StoreSignedLogRoot at a revision that holds a root already succeeds
\* and changes nothing when the root is identical to the stored one, and
\* fails and changes nothing when it differs.
C16_StoreIdempotent ==
    [][\A t \in TxIds, size \in Sizes, ts \in Times :
          (/\ StoreSignedLogRoot(t, size, ts, FALSE)
           /\ HeadConflict(HeadView(t), tx[t].writeRevision)) =>
              /\ HeadView(t)' = HeadView(t)
              /\ IF SignedLogRootRow(t, size, ts) \in HeadView(t)
                 THEN tx'[t].err = "none"
                 ELSE tx'[t].err # "none"]_vars

\* C17: on a tree with no stored head a log transaction opens with write
\* revision 0 and no root, and a snapshot comes with the tree-needs-init
\* sentinel; LatestSignedLogRoot returns the sentinel; a read-write
\* transaction can be opened and the head it stores goes to revision 0;
\* QueueLeaves and AddSequencedLeaves return the sentinel and persist
\* nothing.
C17_TreeNeedsInit ==
    /\ [](\A t \in TxIds :
            (treeHead = {} /\ tx[t].op = "idle") => ENABLED RWBegin(t))
    /\ [][\A t \in TxIds :
          /\ (/\ treeHead = {}
              /\ tx[t].op = "idle"
              /\ tx'[t].op \in {"snapshot", "rw"}) =>
                 /\ tx'[t].writeRevision = 0
                 /\ ~tx'[t].hasRoot
                 /\ tx'[t].op = "snapshot" => tx'[t].err = "TreeNeedsInit"
          /\ (/\ ~tx[t].hasRoot
              /\ tx'[t].pc = "root"
              /\ tx'[t] # tx[t]) =>
                 tx'[t].err = "TreeNeedsInit" /\ tx'[t].ret = <<>>
          /\ (/\ tx[t].op = "rw"
              /\ ~tx[t].hasRoot
              /\ tx'[t].insHead # tx[t].insHead) =>
                 /\ tx'[t].err = "none"
                 /\ \A h \in tx'[t].insHead : h.rev = 0
          /\ (/\ treeHead = {}
              /\ tx[t].op = "idle"
              /\ tx'[t].op = "returned") =>
                 /\ tx'[t].err = "TreeNeedsInit"
                 /\ tx'[t].ret = <<>>
                 /\ UNCHANGED tables]_vars

\* The tree has no head: a call that adds leaves has returned the sentinel
\* and has stored nothing, and a read-write transaction that is still open
\* has stored a first head at revision 0.
C17_Witness ==
    /\ treeHead = {}
    /\ leafData = {}
    /\ tx[1].op = "returned"
    /\ tx[1].err = "TreeNeedsInit"
    /\ tx[2].op = "rw"
    /\ ~tx[2].hasRoot
    /\ \E h \in tx[2].insHead : h.rev = 0

\* C18: ReadWriteTransaction, of the log storage and of the admin storage,
\* returns the callback's error when there is one and else the error of the
\* commit; when it returns an error the committed rows are what they were
\* before, and when it returns none the writes of the callback are committed.
C18_CommitOnlyWithoutError ==
    [][/\ \A cbErr \in CallbackErrors, ok \in BOOLEAN :
             ReadWriteTransaction(1, cbErr, ok) =>
                /\ cbErr # "none" => tx'[1].err = cbErr
                /\ (cbErr = "none" /\ ~ok) => tx'[1].err = "CommitError"
                /\ tx'[1].err # "none" =>
                      UNCHANGED <<leafData, unsequenced, sequenced, treeHead>>
                /\ tx'[1].err = "none" =>
                      treeHead' = treeHead \cup tx[1].insHead
       /\ \A t \in TxIds, cbErr \in CallbackErrors, ok \in BOOLEAN,
               closeOk \in BOOLEAN :
             AdminReadWriteTransaction(t, cbErr, ok, closeOk) =>
                /\ cbErr # "none" => atx'[t].err = cbErr
                /\ (cbErr = "none" /\ ~ok) => atx'[t].err = "CommitError"
                /\ atx'[t].err # "none" => trees' = trees
                /\ atx'[t].err = "none" => trees' = trees \cup atx[t].pend
                /\ atx'[t].pend = {}
                /\ atx'[t].backend # "open"]_vars

\* The log ReadWriteTransaction has returned the callback's error with no
\* tree head stored, and an admin ReadWriteTransaction whose callback
\* created a tree has returned the error of the commit with no tree added.
C18_Witness ==
    /\ tx[1].op = "returned"
    /\ tx[1].err = "CallbackError"
    /\ treeHead = {}
    /\ \E t \in TxIds :
          /\ atx[t].st = "returned"
          /\ atx[t].ops = <<"CreateTree", "Return">>
          /\ atx[t].err = "CommitError"
          /\ trees = {LogTree(treeType)}

\* C19: Close on an admin transaction that was neither committed nor closed
\* rolls it back, so that its writes are gone and the rows of Trees stay as
\* they are; Close on one that was committed or closed returns no error,
\* changes no row and reaches the backend transaction not at all, which
\* one call has ended.
C19_CloseOnce ==
    /\ [][\A t \in TxIds, ok \in BOOLEAN :
             AdminClose(t, ok) =>
                /\ trees' = trees
                /\ atx'[t].pend = {}
                /\ IF atx[t].closed
                   THEN /\ atx'[t].err = "none"
                        /\ atx'[t].backend = atx[t].backend
                        /\ atx'[t].calls = atx[t].calls
                   ELSE /\ atx'[t].backend = "rolledback"
                        /\ atx'[t].calls = 1]_vars
    /\ [](\A t \in TxIds :
             /\ atx[t].closed => atx[t].backend \in {"committed", "rolledback"}
             /\ atx[t].backend = "rolledback" => atx[t].pend = {})

\* One transaction has created a tree, committed and been closed, and the
\* tree is there; another has created a tree and been closed twice, and
\* its tree is not; each backend transaction was reached once.
C19_Witness ==
    \E t, u \in TxIds :
        /\ atx[t].ops = <<"CreateTree", "Commit", "Close">>
        /\ atx[t].backend = "committed"
        /\ atx[t].calls = 1
        /\ atx[t].err = "none"
        /\ atx[u].ops = <<"CreateTree", "Close", "Close">>
        /\ atx[u].backend = "rolledback"
        /\ atx[u].calls = 1
        /\ Cardinality(trees) = 2

\* C20: QueueLeaves on a batch with a leaf whose identity hash has not the
\* size of the hasher fails with an InvalidArgument error and stores no leaf
\* row and no queue entry for any leaf of the batch.
C20_InvalidHashRejected ==
    [][\A t \in TxIds : \A batch \in QueueBatches(t) : \A qts \in Times :
          (QBegin(t, batch, qts) /\ ~ValidBatch(batch)) =>
              /\ tx'[t].op = "returned"
              /\ tx'[t].err = "InvalidArgument"
              /\ tx'[t].ret = <<>>
              /\ tx'[t].insLeaf = {}
              /\ tx'[t].insUnseq = {}
              /\ UNCHANGED <<leafData, unsequenced>>]_vars

\* C22: a QueueLeaves call that returns without error returns one result
\* per input leaf; the result at position i has the identity hash of the
\* input leaf at position i and is either that leaf, stamped with the queue
\* timestamp, or a stored leaf with status ALREADY_EXISTS.
C22_ResultPerInputPosition ==
    [][\A t \in TxIds :
          (tx[t].op = "queue" /\ tx'[t].op = "returned" /\ tx'[t].err = "none") =>
              /\ DOMAIN tx'[t].ret = DOMAIN tx[t].batch
              /\ \A i \in DOMAIN tx[t].batch :
                    /\ tx'[t].ret[i].leaf.id = tx[t].batch[i].id
                    /\ \/ tx'[t].ret[i] =
                             [leaf |-> tx[t].batch[i], status |-> "OK"]
                       \/ /\ tx'[t].ret[i].status = "ALREADY_EXISTS"
                          /\ tx'[t].ret[i].leaf \in leafData']_vars

\* A call whose batch was not in ascending hash order has returned: the
\* larger hash first, one leaf as queued and one stored by another caller.
C22_Witness ==
    \E t \in TxIds :
        /\ tx[t].op = "returned"
        /\ tx[t].err = "none"
        /\ Len(tx[t].ret) = 2
        /\ tx[t].ret[1].leaf.id > tx[t].ret[2].leaf.id
        /\ \E i, j \in 1..2 :
              /\ tx[t].ret[i].status = "OK"
              /\ tx[t].ret[i].leaf.val = t
              /\ tx[t].ret[j].status = "ALREADY_EXISTS"
              /\ tx[t].ret[j].leaf.val # t

\* The committed row of the tree of the log.
LogTreeRows == {r \in trees : r.id = 0}

\* C21: a QueueLeaves call made while the committed state of the tree is
\* FROZEN returns FailedPrecondition at once, and no step adds a row to
\* LeafData or to Unsequenced while the tree is FROZEN.
C21_FrozenRejectsQueue ==
    [][(\E r \in LogTreeRows : r.state = "FROZEN") =>
          /\ \A h \in Hashes :
                QBegin(1, <<LeafOf(1, h)>>, 1) =>
                    /\ tx'[1].op = "returned"
                    /\ tx'[1].err = "FailedPrecondition"
          /\ leafData' = leafData
          /\ unsequenced' = unsequenced]_vars

\* The admin transaction of t is at the call of an operation: it is open,
\* no call on it is under way and the backend transaction has not ended.
AtCall(t) ==
    /\ atx[t].st = "open"
    /\ atx[t].pc = "ready"
    /\ atx[t].backend = "open"

\* The tree of the log is soft-deleted in the rows given.
SoftDeleted(rows) == \E r \in rows : r.id = 0 /\ r.deleted = "true"

\* C23: HardDeleteTree on a tree that is there and not soft-deleted returns
\* FailedPrecondition and deletes nothing, and the DELETE of a tree's row
\* finds the tree soft-deleted in the rows its transaction reads at that
\* moment.
C23_HardDeleteOnlySoftDeleted ==
    [][/\ \A t \in TxIds :
             (/\ HardDeleteTree(t, 0)
              /\ AtCall(t)
              /\ \E r \in TreesView(t) : r.id = 0
              /\ ~SoftDeleted(TreesView(t))) =>
                 /\ atx'[t].err = "FailedPrecondition"
                 /\ atx'[t].pc = "ready"
                 /\ atx'[t].del = atx[t].del
       /\ \A t \in TxIds :
             (atx[t].st = "open" /\ 0 \in atx'[t].del \ atx[t].del) =>
                 SoftDeleted(TreesView(t))]_vars

\* The row of the log's tree among the rows given.
RowOf(rows) == CHOOSE r \in rows : r.id = 0

\* The writes of transaction t that are waiting for its commit.
Writes(a) == <<a.pend, a.del, a.ctlIns, a.ctlDel>>

\* C24: SoftDeleteTree on a tree its transaction reads as not deleted goes on
\* to the UPDATE with deleted = true and the time of the call, and the UPDATE
\* leaves the row deleted with that time, which the call returns; on a tree
\* read as soft-deleted the call returns FailedPrecondition and on no tree
\* NotFound, and then the transaction's writes, the deletion time among
\* them, are what they were.
C24_SoftDeleteTree ==
    [][\A t \in TxIds :
          /\ (SoftDeleteTree(t, 0, t) /\ AtCall(t)) =>
                LET view == TreesView(t)
                IN  IF ~\E r \in view : r.id = 0
                    THEN /\ atx'[t].err = "NotFound"
                         /\ atx'[t].pc = "ready"
                         /\ Writes(atx'[t]) = Writes(atx[t])
                    ELSE IF SoftDeleted(view)
                    THEN /\ atx'[t].err = "FailedPrecondition"
                         /\ atx'[t].pc = "ready"
                         /\ Writes(atx'[t]) = Writes(atx[t])
                         /\ TreesView(t)' = view
                    ELSE /\ atx'[t].pc = "update"
                         /\ atx'[t].arg =
                               <<[id |-> 0, deleted |-> "true",
                                  deleteTime |-> t]>>
          /\ (/\ UpdateDeletedRow(t)
              /\ atx[t].op = "SoftDeleteTree"
              /\ \E r \in TreesView(t) : r.id = 0) =>
                /\ RowOf(atx'[t].pend) =
                      [RowOf(TreesView(t)) EXCEPT !.deleted = "true",
                                                  !.deleteTime = t]
                /\ atx'[t].err = "none"
                /\ atx'[t].ret[1].deleted
                /\ atx'[t].ret[1].deleteTime = t]_vars

\* A second SoftDeleteTree has been refused and the tree keeps the deletion
\* time of the first, which is committed.
C24_Witness ==
    /\ atx[2].op = "SoftDeleteTree"
    /\ atx[2].err = "FailedPrecondition"
    /\ atx[2].pend = {}
    /\ \E r \in trees : r.id = 0 /\ r.deleted = "true" /\ r.deleteTime = 1

\* C25: UndeleteTree on a tree its transaction reads as not deleted returns
\* FailedPrecondition and leaves the transaction's writes as they were; on a
\* soft-deleted tree it goes on to the UPDATE, which clears the deleted flag
\* and the deletion time and nothing else, so that the tree read from the
\* row is the tree of a row that was never deleted, and after a
\* SoftDeleteTree and an UndeleteTree in one transaction it is the committed
\* tree.
C25_UndeleteRestores ==
    [][\A t \in TxIds :
          /\ (UndeleteTree(t, 0) /\ AtCall(t)) =>
                LET view == TreesView(t)
                IN  IF ~\E r \in view : r.id = 0
                    THEN /\ atx'[t].err = "NotFound"
                         /\ Writes(atx'[t]) = Writes(atx[t])
                    ELSE IF ~SoftDeleted(view)
                    THEN /\ atx'[t].err = "FailedPrecondition"
                         /\ atx'[t].pc = "ready"
                         /\ Writes(atx'[t]) = Writes(atx[t])
                    ELSE /\ atx'[t].pc = "update"
                         /\ atx'[t].arg =
                               <<[id |-> 0, deleted |-> "false",
                                  deleteTime |-> NoTime]>>
          /\ (/\ UpdateDeletedRow(t)
              /\ atx[t].op = "UndeleteTree"
              /\ \E r \in TreesView(t) : r.id = 0) =>
                LET before == RowOf(TreesView(t))
                    after == RowOf(atx'[t].pend)
                IN  /\ after = [before EXCEPT !.deleted = "false",
                                              !.deleteTime = NoTime]
                    /\ readTree(after) =
                          readTree([before EXCEPT !.deleted = "NULL",
                                                  !.deleteTime = NoTime])
                    /\ atx'[t].ret = <<readTree(after)>>
                    /\ (/\ ~SoftDeleted(trees)
                        /\ \E r \in trees : r.id = 0
                        /\ before = [RowOf(trees) EXCEPT
                                        !.deleted = "true",
                                        !.deleteTime = t]) =>
                          readTree(after) = readTree(RowOf(trees))]_vars

\* A transaction has soft-deleted and undeleted the tree, and the tree it
\* returns is the committed tree, which was never deleted.
C25_Witness ==
    /\ atx[1].op = "UndeleteTree"
    /\ atx[1].st = "open"
    /\ atx[1].pc = "ready"
    /\ atx[1].err = "none"
    /\ atx[1].pend # {}
    /\ RowOf(atx[1].pend).deleted = "false"
    /\ \E r \in trees : r.id = 0 /\ r.deleted = "NULL"
    /\ atx[1].ret = <<readTree(RowOf(trees))>>

\* C26: when a commit removes the row of the log's tree, which only
\* HardDeleteTree deletes, no TreeControl row and no TreeHead row of the
\* tree remains, whether the backend cascades or not.
C26_HardDeleteCascades ==
    [][(LogTreeRows # {} /\ LogTreeRows' = {}) =>
          /\ 0 \notin treeControl'
          /\ treeHead' = {}]_vars

\* C27: GetTree returns the tree of the row its transaction reads, with
\* deleted = true when the tree is soft-deleted, and without a row, as after
\* HardDeleteTree, it returns NotFound and no tree.
C27_GetTreeAfterDelete ==
    [][\A t \in TxIds :
          (GetTree(t, 0) /\ AtCall(t)) =>
              LET view == TreesView(t)
              IN  IF \E r \in view : r.id = 0
                  THEN /\ atx'[t].err = "none"
                       /\ atx'[t].ret = <<readTree(RowOf(view))>>
                       /\ SoftDeleted(view) =>
                             /\ atx'[t].ret[1].deleted
                             /\ atx'[t].ret[1].deleteTime =
                                   RowOf(view).deleteTime
                  ELSE /\ atx'[t].err = "NotFound"
                       /\ atx'[t].ret = <<>>]_vars

\* One transaction holds the soft-deleted tree GetTree gave it, and after
\* the committed HardDeleteTree the other has got NotFound from GetTree.
C27_Witness ==
    /\ trees = {}
    /\ atx[1].op = "GetTree"
    /\ atx[1].err = "none"
    /\ atx[1].ret # <<>>
    /\ atx[1].ret[1].deleted
    /\ atx[2].op = "GetTree"
    /\ atx[2].err = "NotFound"

\* C28: while the log's tree is soft-deleted, GetTree and UpdateTree on it
\* return NotFound and write nothing, and QueueLeaves returns NotFound
\* without opening a transaction.
C28_SoftDeletedIsNotFound ==
    [][/\ (/\ AtCall(2)
           /\ SoftDeleted(TreesView(2))
           /\ \/ GetTree(2, 0)
              \/ \E state \in TreeStates : UpdateTree(2, 0, SetState(state), MaxTime)) =>
             /\ atx'[2].err = "NotFound"
             /\ atx'[2].pc = "ready"
             /\ Writes(atx'[2]) = Writes(atx[2])
       /\ (/\ SoftDeleted(trees)
           /\ \E h \in Hashes : QBegin(1, <<LeafOf(1, h)>>, 1)) =>
             /\ tx'[1].op = "returned"
             /\ tx'[1].err = "NotFound"]_vars

\* The specs a GetTokens call is handed hold a Global-Write spec.
HasGlobalWrite(specs) == \E i \in DOMAIN specs : specs[i] = GlobalWrite

\* The number of rows in the queue table.
Backlog == Cardinality(unsequenced)

\* C29 as stated: whatever way the quota manager counts, GetTokens(n, specs)
\* is refused exactly when specs holds a Global-Write spec and the rows in
\* the queue table and n exceed MaxUnsequencedRows.
C29_TokensByBacklog ==
    [][\A numTokens \in 1..MaxTokens, specs \in SeqsUpTo(QuotaSpecs, MaxSpecs) :
          GetTokens(numTokens, specs) =>
              (qm'.err = "ErrTooManyUnsequencedRows" <=>
                  /\ HasGlobalWrite(specs)
                  /\ Backlog + numTokens > qm.MaxUnsequencedRows)]_vars

\* C29: a quota manager that counts with SELECT COUNT(*) refuses
\* GetTokens(n, specs) exactly when specs holds a Global-Write spec and the
\* rows in the queue table and n exceed MaxUnsequencedRows: with 20 rows
\* allowed, 19 queued admit one token and not two, 20 queued admit none,
\* and specs of the other scopes are admitted whatever is queued.
C29_TokensByCount ==
    [][\A numTokens \in 1..MaxTokens, specs \in SeqsUpTo(QuotaSpecs, MaxSpecs) :
          (GetTokens(numTokens, specs) /\ qm.UseSelectCount) =>
              /\ qm'.err = "ErrTooManyUnsequencedRows" <=>
                    /\ HasGlobalWrite(specs)
                    /\ Backlog + numTokens > qm.MaxUnsequencedRows
              /\ qm'.err \in {"none", "ErrTooManyUnsequencedRows"}
              /\ (HasGlobalWrite(specs) /\ qm.MaxUnsequencedRows = 20) =>
                    /\ (Backlog = 19 /\ numTokens = 1) => qm'.err = "none"
                    /\ (Backlog = 19 /\ numTokens = 2) => qm'.err # "none"
                    /\ (Backlog = 20 /\ numTokens = 1) => qm'.err # "none"
              /\ ~HasGlobalWrite(specs) => qm'.err = "none"]_vars

\* With 19 rows queued and 20 allowed, a counting quota manager has refused
\* two Global-Write tokens.
C29_Witness ==
    /\ qm.UseSelectCount
    /\ qm.MaxUnsequencedRows = 20
    /\ Backlog = 19
    /\ qm.numTokens = 2
    /\ HasGlobalWrite(qm.specs)
    /\ qm.err = "ErrTooManyUnsequencedRows"

\* C30: with M rows allowed and SELECT COUNT(*), while leaves are queued one
\* at a time and the sequencer takes them off the queue, GetTokens for one
\* Global-Write token succeeds whenever fewer than M rows are queued, before
\* or after a refusal, and is refused when M rows are queued.
C30_QuotaCeiling ==
    [][(GetTokens(1, <<GlobalWrite>>) /\ qm.UseSelectCount) =>
          IF Backlog < qm.MaxUnsequencedRows
          THEN qm'.err = "none"
          ELSE qm'.err = "ErrTooManyUnsequencedRows"]_vars

\* A token has been refused with the queue full, the sequencer has taken
\* leaves off the queue, and a token has been granted again.
C30_Witness ==
    /\ qm.denied
    /\ qm.numTokens = 1
    /\ qm.err = "none"
    /\ sequenced # {}
    /\ Backlog < qm.MaxUnsequencedRows
    /\ Cardinality(leafData) = qm.MaxUnsequencedRows

\* C31 as stated: with every writer asking for its token before it queues,
\* the queue never holds more than MaxUnsequencedRows rows, however the
\* writers interleave.
C31_BacklogBounded == Backlog <= qm.MaxUnsequencedRows

\* C31: while writer 1 alone has queued leaves and writer 2 neither holds a
\* token nor is in a call, the queue holds at most MaxUnsequencedRows rows.
C31_OneWriterBounded ==
    (/\ \A l \in leafData : l.val = 1
     /\ qm.held[2] = 0
     /\ tx[2].op = "idle") => Backlog <= qm.MaxUnsequencedRows

\* Writer 1 has filled the queue on its own and has then been refused.
C31_Witness ==
    /\ \A l \in leafData : l.val = 1
    /\ qm.held[2] = 0
    /\ tx[2].op = "idle"
    /\ tx[1].op = "idle"
    /\ Backlog = qm.MaxUnsequencedRows
    /\ qm.denied
    /\ qm.err = "ErrTooManyUnsequencedRows"

\* The answer GetTokens would give to each request, as a function.
Answers ==
    [numTokens \in 1..MaxTokens, specs \in SeqsUpTo(QuotaSpecs, 1) |->
        GetTokensOf(qm, numTokens, specs)]

\* C32: PutTokens, ResetQuota and PeekTokens return success whatever the
\* specs, and after them, as after a GetTokens that succeeded, the queue is
\* what it was and GetTokens gives every request the answer it would have
\* given before.
C32_NoopsChangeNothing ==
    [][(\/ qm'.call \in {"PutTokens", "ResetQuota", "PeekTokens"}
        \/ qm'.call = "GetTokens" /\ qm'.err = "none") =>
          /\ qm'.err = "none"
          /\ unsequenced' = unsequenced
          /\ leafData' = leafData
          /\ qm'.MaxUnsequencedRows = qm.MaxUnsequencedRows
          /\ qm'.stats = qm.stats
          /\ Answers' = Answers]_vars

\* PutTokens has returned on a full queue after a refusal, and the queue is
\* still full for GetTokens.
C32_Witness ==
    /\ qm.call = "PutTokens"
    /\ qm.err = "none"
    /\ qm.denied
    /\ qm.UseSelectCount
    /\ Backlog = qm.MaxUnsequencedRows
    /\ GetTokensOf(qm, 1, <<GlobalWrite>>) = "ErrTooManyUnsequencedRows"


\* ------------------------------------------------------- the error boundary

InitWrap ==
    /\ InitEmpty

NextWrap == \E err \in Errors : Wrap(err)

SpecWrap == InitWrap /\ [][NextWrap]_vars

InitTiles ==
    /\ treeType = "LOG"
    /\ leafData = {}
    /\ unsequenced = {}
    /\ sequenced = {}
    /\ treeHead = {}
    /\ headLog = <<>>
    /\ dequeuedLog = {}
    /\ received = {}
    /\ \E revisioned \in BOOLEAN :
          trees = {[LogTree(treeType) EXCEPT !.revisioned = revisioned]}
    /\ treeControl = {0}
    /\ atx = [t \in TxIds |-> NoAdminTx]
    /\ qm = NoQuota
    /\ tx = [t \in TxIds |-> IdleTx]
    /\ submitted = {}
    /\ subtree = {}
    /\ wrapped = NoWrap

\* Caller 1 writes tiles and heads; caller 2 reads beside it.
NextTiles ==
    \/ RWBegin(1)
    \/ \E tile \in Tiles : GetMerkleNodes(1, tile)
    \/ /\ tx[1].writeRevision <= MaxRev
       /\ \E tile \in Tiles, val \in TileVals : SetMerkleNodes(1, tile, val)
    \/ StoreSignedLogRoot(1, 0, 1, FALSE)
    \/ RWCommit(1)
    \/ RWAbort(1)
    \/ RWBegin(2)
    \/ \E tile \in Tiles : GetMerkleNodes(2, tile)
    \/ RWAbort(2)

SpecTiles == InitTiles /\ [][NextTiles]_vars

\* The rows of Subtree a step writes.
TilesWritten == subtree' \ subtree

\* Transaction t commits in the step.
CommitStep(t) == tx[t].op = "rw" /\ tx'[t].op = "idle" /\ CommitTables(t)

\* No transaction has read a tile at a revision above its read revision.
ReadsAtReadRevision ==
    \A t \in TxIds : \A r \in tx[t].reads : r.rev <= tx[t].readRev

\* C34, as stated: for every tree the rows of Subtree are written only at a
\* commit, one for each dirty tile of the committing transaction, all at
\* its write revision, which is its read revision plus one, and no tile is
\* read at a revision above the read revision.
C34_TilesAtWriteRevision ==
    [][/\ \A r \in TilesWritten :
             \E t \in TxIds :
                /\ CommitStep(t)
                /\ \E d \in tx[t].dirty : d.tile = r.tile /\ d.val = r.val
                /\ r.rev = tx[t].writeRevision
                /\ tx[t].writeRevision = tx[t].readRev + 1
                /\ \A n \in TilesWritten : n.tile = r.tile => n = r
       /\ ReadsAtReadRevision']_vars

\* C34, as the tiles are written: only at a commit, one row for each dirty
\* tile of the committing transaction; on a tree with subtree revisions
\* all at the write revision of the transaction, which is the read
\* revision plus one on a tree with a head and 0 on a tree without; on a
\* tree without subtree revisions all at revision 0. No tile is read at a
\* revision above the read revision.
C34_TilesAtFlushRevision ==
    [][/\ \A r \in TilesWritten :
             \E t \in TxIds :
                /\ CommitStep(t)
                /\ \E d \in tx[t].dirty : d.tile = r.tile /\ d.val = r.val
                /\ r.rev = IF SubtreeRevisions THEN tx[t].writeRevision ELSE 0
                /\ tx[t].writeRevision
                      = IF tx[t].hasRoot THEN tx[t].readRev + 1 ELSE 0
                /\ \A n \in TilesWritten : n.tile = r.tile => n = r
       /\ ReadsAtReadRevision']_vars

C34_Witness ==
    /\ ~SubtreeRevisions
    /\ \E t \in TxIds :
          /\ tx[t].writeRevision = 1
          /\ \E r \in tx[t].reads : r.rev = 0
    /\ \E r \in subtree : r.rev = 0
    /\ \E h \in treeHead : h.rev = 1

\* ------------------------------------------------- repeats within a batch

\* Batches whose leaves with one identity hash may differ in their values.
RepeatBatches == SeqsUpTo([id : Hashes, val : TxIds, extra : {0}], MaxBatch)

NextRepeats ==
    \E t \in TxIds :
        \/ \E batch \in RepeatBatches : QBegin(t, batch, MaxTime)
        \/ QInsert(t)
        \/ QFinish(t)
        \/ Return(t)

SpecRepeats == InitQueue /\ [][NextRepeats]_vars

\* The positions of a batch with the identity hash h.
PositionsOf(batch, h) == {i \in DOMAIN batch : batch[i].id = h}

\* C35: when a QueueLeaves batch holds an identity hash at several positions
\* and no row with the hash is stored when the call inserts it, the call
\* succeeds, one row of LeafData and one row of Unsequenced are made for
\* the hash, one of the positions comes back as queued and the others come
\* back as ALREADY_EXISTS with the stored row.
C35_RepeatsInBatch ==
    [][\A t \in TxIds : \A h \in Hashes :
          LET pos == PositionsOf(tx[t].batch, h)
          IN  (/\ tx[t].op = "queue"
               /\ tx'[t].op = "returned"
               /\ Cardinality(pos) > 1
               /\ RowsOf(leafData, h) = {})
              => /\ tx'[t].err = "none"
                 /\ Cardinality(RowsOf(leafData', h)) = 1
                 /\ Cardinality(RowsOf(unsequenced', h)) = 1
                 /\ Cardinality({i \in pos : tx'[t].ret[i].status = "OK"}) = 1
                 /\ \A i \in pos :
                       \/ tx'[t].ret[i].status = "OK"
                       \/ /\ tx'[t].ret[i].status = "ALREADY_EXISTS"
                          /\ tx'[t].ret[i].leaf \in RowsOf(leafData', h)]_vars

C35_Witness ==
    \E t \in TxIds :
        /\ tx[t].op = "returned"
        /\ tx[t].err = "none"
        /\ Len(tx[t].ret) = 2
        /\ tx[t].ret[1].leaf.id = tx[t].ret[2].leaf.id
        /\ {tx[t].ret[1].status, tx[t].ret[2].status} = {"OK", "ALREADY_EXISTS"}
        /\ Cardinality(leafData) = 1
        /\ Cardinality(unsequenced) = 1

\* ------------------------------------------- dequeue on a preordered log

\* A PREORDERED_LOG tree: one caller adds sequenced leaves and queues
\* leaves, the other runs transactions that dequeue and store tree heads.
NextPreDeq ==
    \/ \E h \in Hashes, idx \in Sizes :
          AddSequencedLeaves(1, <<SequencedLeaf(1, h, idx)>>, MaxTime)
    \/ \E h \in Hashes : QBegin(1, <<LeafOf(1, h)>>, 1)
    \/ QInsert(1)
    \/ QFinish(1)
    \/ Return(1)
    \/ RWBegin(2)
    \/ \E limit \in 1..MaxLimit, cutoff \in Times : DequeueLeaves(2, limit, cutoff)
    \/ \E size \in Sizes : StoreSignedLogRoot(2, size, MaxTime, FALSE)
    \/ RWCommit(2)
    \/ RWAbort(2)

SpecPreDeq == InitPre /\ [][NextPreDeq]_vars

\* How many of the indices start, start + 1, ... have a sequenced entry
\* before the first that has none, up to limit.
RunFrom(t, start, limit) ==
    Cardinality({k \in 1..limit :
        \A i \in start..(start + k - 1) : \E s \in SeqView(t) : s.seq = i})

\* The step is a DequeueLeaves of transaction t with the limit that returns
\* the sequenced leaves from the tree size on, in ascending order, up to
\* the first index without an entry, and changes nothing but the result.
ScansFromTreeSize(t, limit) ==
    LET start == tx[t].rootSize
        n == RunFrom(t, start, limit)
        ret == tx'[t].ret
    IN  /\ tx'[t].err = "none"
        /\ Len(ret) = n
        /\ \A j \in 1..n :
              /\ ret[j].idx = start + j - 1
              /\ \E s \in SeqView(t) : s.seq = ret[j].idx /\ s.id = ret[j].id
        /\ tx'[t].dequeued = tx[t].dequeued
        /\ tx'[t].delUnseq = tx[t].delUnseq
        /\ tx'[t].insSeq = tx[t].insSeq
        /\ UNCHANGED tables

\* The call before this step in the transaction was a DequeueLeaves with
\* the same limit.
Repeated(t, limit) ==
    /\ tx[t].pc = "dequeued"
    /\ tx[t].arg.limit = limit

\* C36, as stated: on a PREORDERED_LOG tree DequeueLeaves is the range scan
\* from the tree size, whatever the cutoff and the queue, removes and
\* records nothing, and a repeated call in the transaction returns the same
\* leaves.
C36_PreorderedDequeueSame ==
    [][\A t \in TxIds : \A limit \in 1..MaxLimit, cutoff \in Times :
          (treeType = "PREORDERED_LOG" /\ DequeueLeaves(t, limit, cutoff))
          => /\ ScansFromTreeSize(t, limit)
             /\ Repeated(t, limit) => tx'[t].ret = tx[t].ret]_vars

\* C36, with the leaves other callers add: on a PREORDERED_LOG tree
\* DequeueLeaves is the range scan from the tree size over the sequenced
\* leaves committed at the time of the call, whatever the cutoff and the
\* queue; it removes and records nothing, and a repeated call in the
\* transaction returns the leaves of the call before, followed by those
\* committed since at the next indices.
C36_PreorderedDequeue ==
    [][\A t \in TxIds : \A limit \in 1..MaxLimit, cutoff \in Times :
          (treeType = "PREORDERED_LOG" /\ DequeueLeaves(t, limit, cutoff))
          => /\ ScansFromTreeSize(t, limit)
             /\ Repeated(t, limit) =>
                   /\ Len(tx[t].ret) <= Len(tx'[t].ret)
                   /\ tx[t].ret = SubSeq(tx'[t].ret, 1, Len(tx[t].ret))]_vars

C36_Witness ==
    /\ treeType = "PREORDERED_LOG"
    /\ unsequenced # {}
    /\ tx[2].pc = "dequeued"
    /\ tx[2].rootSize = 1
    /\ tx[2].arg.cutoff < MaxTime
    /\ Len(tx[2].ret) = 1
    /\ tx[2].ret[1].idx = 1
    /\ tx[2].ret[1].qts = MaxTime

\* ------------------------------------------------------- two sequencers

\* C37: the tree never holds two committed heads with one revision: of two
\* transactions that opened at the same read revision and each stored a
\* head, at most one has committed its head.
C37_OneHeadPerRevision ==
    /\ \A g, h \in treeHead : g.rev = h.rev => g = h
    /\ \A i, j \in DOMAIN headLog : headLog[i].rev = headLog[j].rev => i = j

\* Two transactions opened at the same read revision and each has called
\* StoreSignedLogRoot; the first has committed its head and the insert of
\* the second has failed on the key.
C37_Witness ==
    \E t \in TxIds :
        /\ tx[t].op = "rw"
        /\ tx[t].hasRoot
        /\ tx[t].err = "DuplicateHead"
        /\ tx[t].insHead = {}
        /\ \E h \in treeHead :
              /\ h.rev = tx[t].writeRevision
              /\ h.rev = tx[t].readRev + 1

\* ------------------------------------------------- the open of a log tx

\* The greatest revision among the committed heads.
GreatestRevision == CHOOSE r \in {h.rev : h \in treeHead} :
                        \A h \in treeHead : h.rev <= r

\* C38: a log transaction that opens on a tree with heads reads the
\* greatest revision among the committed heads, with the tree size and the
\* root of that head, and its write revision holds no committed head.
C38_OpensAtGreatestRevision ==
    [][\A t \in TxIds :
          (/\ treeHead # {}
           /\ tx[t].op = "idle"
           /\ RWBegin(t))
          => /\ tx'[t].readRev = GreatestRevision
             /\ \E h \in treeHead :
                   /\ h.rev = GreatestRevision
                   /\ tx'[t].rootSize = h.size
                   /\ tx'[t].rootTs = h.ts
             /\ ~HeadConflict(treeHead, tx'[t].writeRevision)]_vars

\* Transactions of the log storage open with the query of the latest head
\* answered or failing, store heads, commit and roll back.
NextOpen ==
    \E t \in TxIds :
        \/ RWBegin(t)
        \/ RWBeginScanError(t)
        \/ \E size \in Sizes, ts \in Times : StoreSignedLogRoot(t, size, ts, FALSE)
        \/ RWCommit(t)
        \/ RWAbort(t)

SpecOpen == Init /\ [][NextOpen]_vars

\* C39: when the read of the latest head fails for a reason other than the
\* tree having no head, the open fails and hands back no transaction: the
\* failure is not taken for a head of size 0 at revision 0.
C39_FailedReadFailsOpen ==
    [][\A t \in TxIds :
          RWBeginScanError(t)
          => /\ tx'[t].op = "returned"
             /\ tx'[t].err # "none"
             /\ ~(tx'[t].hasRoot /\ tx'[t].rootSize = 0 /\ tx'[t].readRev = 0)]_vars

\* ------------------------------------------------------ the update of a tree

\* Two trees: the tree of the log and a PREORDERED_LOG tree.
InitUpdate ==
    /\ treeType = "LOG"
    /\ leafData = {}
    /\ unsequenced = {}
    /\ sequenced = {}
    /\ treeHead = {FirstHead}
    /\ headLog = <<FirstHead>>
    /\ dequeuedLog = {}
    /\ received = {}
    /\ trees = {LogTree(treeType), TreeRow(1, "PREORDERED_LOG", "ACTIVE", 1)}
    /\ treeControl = {0, 1}
    /\ atx = [t \in TxIds |-> NoAdminTx]
    /\ qm = NoQuota
    /\ tx = [t \in TxIds |-> IdleTx]
    /\ submitted = {}
    /\ subtree = {}
    /\ wrapped = NoWrap

\* The calls of UpdateTree: the tree named and the mutator.
Updates ==
    <<[id |-> 1, mutator |-> [state |-> "FROZEN"]],
      [id |-> 1, mutator |-> [displayName |-> "renamed"]],
      [id |-> 1, mutator |-> [type |-> "LOG"]],
      [id |-> 0, mutator |-> [type |-> "PREORDERED_LOG"]],
      [id |-> 1, mutator |-> [id |-> 0]],
      [id |-> 1, mutator |-> [createTime |-> MaxTime]],
      [id |-> 1, mutator |-> [deleted |-> TRUE, deleteTime |-> MaxTime]],
      [id |-> 1,
       mutator |-> [storageSettings |-> [SubtreeRevisions |-> TRUE]]]>>

\* One caller updates the two trees in admin ReadWriteTransactions, the
\* other soft-deletes the second tree in its own.
NextUpdate ==
    \/ \E t \in TxIds : AdminBegin(t, "rw")
    \/ \E i \in DOMAIN Updates :
          UpdateTree(1, Updates[i].id, Updates[i].mutator, MaxTime)
    \/ UpdateTreeRow(1)
    \/ SoftDeleteTree(2, 1, MaxTime)
    \/ UpdateDeletedRow(2)
    \/ \E cbErr \in CallbackErrors :
          AdminReadWriteTransaction(1, cbErr, TRUE, TRUE)
    \/ AdminReadWriteTransaction(2, "none", TRUE, TRUE)
    \/ AdminDrop(1)

SpecUpdate == InitUpdate /\ [][NextUpdate]_vars

\* The columns of a row of Trees that updateTreeSQL leaves alone.
KeptColumns(r) ==
    [id |-> r.id, createTime |-> r.createTime, revisioned |-> r.revisioned,
     deleted |-> r.deleted, deleteTime |-> r.deleteTime]

============================================================================
